---- MODULE Spec2Model ----
(***************************************************************************)
(* A model of mcp-analytics-sdk: the event delivery client                 *)
(* (AnalyticsClient), the free-invocation wrapper (registerAnalyticsTool)  *)
(* and the payment-gated wrapper (registerAnalyticsPaidTool).              *)
(*                                                                         *)
(* Two specifications share the definitions of the client's operations:    *)
(*   SpecClient  one AnalyticsClient driven directly through its public    *)
(*               methods, over every kind of configured batch size;        *)
(*   Spec        one registered tool (free or paid) whose invocations run  *)
(*               concurrently and hand their events to the client.         *)
(***************************************************************************)
EXTENDS Integers, Sequences, FiniteSets, TLC

VARIABLES
    \* ---- AnalyticsClient fields
    apiKey,        \* truthiness of this.apiKey
    batchSize,     \* this.batchSize
    eventQueue,    \* this.eventQueue
    flushTimer,    \* TRUE while the setInterval handle is set
    isDestroyed,   \* this.isDestroyed
    \* ---- the network and what has been observed of the client
    inflight,      \* batches whose fetch has been issued and has not settled
    sendCalls,     \* every batch handed to sendEvents, in call order
    delivered,     \* events of batches whose send resolved
    discarded,     \* events of batches whose send rejected
    lastFlush,     \* how the last settled flush() promise ended
    accepted,      \* events queueEvent has pushed onto the queue
    lastSplice,    \* the last splice of flush: the queue before it, what it removed
    nextEvent,     \* SpecClient: id of the next event the driver queues
    \* ---- a tool registration and its invocations
    toolKind,      \* "free" (registerAnalyticsTool), "paid", or "none"
    options,       \* the options of the registration
    registered,    \* the callback handed to mcpServer.tool, or "throws" when
                   \* the registration threw before mcpServer.tool
    analyticsEnabled, \* isEnabled / isAnalyticsEnabled: a client was built
    props,         \* this.props of the agent: what the OAuth provider supplied
    userInfo,      \* the userInfo local the wrapper spreads into its events
    sanIn,         \* SpecSanitize: the args of two calls and the callback's result
    sanOut,        \* SpecSanitize: what each call passed on, tracked and returned
    server,        \* SpecServer: the tools of one server and their clients
    agentCall,     \* how analyticsPaidTool ended for its caller
    pc,            \* where each invocation is
    frame,         \* the locals of each invocation
    calls,         \* the (args, extra) each invocation called the original with
    completion,    \* what each invocation returned or threw
    queued,        \* the events each invocation handed to queueEvent
    stripe         \* the payment platform's records

clientVars == <<apiKey, batchSize, eventQueue, flushTimer, isDestroyed>>
netVars == <<inflight, sendCalls, delivered, discarded, lastFlush, accepted,
            lastSplice>>
regVars == <<toolKind, options, registered, analyticsEnabled, props, userInfo,
             sanIn, sanOut, server, agentCall>>
invVars == <<pc, frame, calls, completion, queued>>
wrapperVars == <<regVars, invVars, stripe>>
vars == <<clientVars, netVars, nextEvent, wrapperVars>>

----------------------------------------------------------------------------
\* Bounds of the model

\* SpecClient: how many events the driver queues
MaxEvents == 4
\* how many batches are handed to sendEvents in one behaviour
MaxSendCalls == 4
\* Spec: how many invocations of the registered tool run (concurrently)
MaxInvocations == 2

----------------------------------------------------------------------------
\* Program constants

\* client.ts: this.batchSize = Math.min(config.batchSize || 20, 25)
DefaultBatchSize == 20
MaxBatchSize == 25
\* client.ts: setInterval(..., config.flushInterval || 30000)
DefaultFlushInterval == 30000

Min(a, b) == IF a < b THEN a ELSE b
Max(a, b) == IF a > b THEN a ELSE b
Range(s) == {s[i] : i \in DOMAIN s}

\* config.batchSize values a registration passes; 0 also stands for an omitted
\* option (undefined || 20 and 0 || 20 are both 20)
ConfigBatchSizes == {-999, 0, 1, 2, 3, 30}
\* config.flushInterval values; 0 disables the timer
ConfigFlushIntervals == {0, DefaultFlushInterval}

----------------------------------------------------------------------------
\* JavaScript values
\*
\* A string is a sequence of segments, each the first len characters of a
\* named text: substring and concatenation are then computed, not assumed.
\* An object is the sequence of its own enumerable entries, in insertion
\* order; a property name is a sequence of characters.

JNull == [t |-> "null"]
JUndefined == [t |-> "undefined"]
JNum(n) == [t |-> "number", n |-> n]
JBool(b) == [t |-> "boolean", b |-> b]
JStr(text, len) == [t |-> "string", s |-> <<[base |-> text, len |-> len]>>]
JObj(entries) == [t |-> "object", entries |-> entries]
JArr(items) == [t |-> "array", items |-> items]
\* an object created by a class constructor with a message (Error and the
\* payment platform's error classes)
JError(class, message) == [t |-> "error", class |-> class, message |-> message]

RECURSIVE SegLen(_)
SegLen(s) == IF s = <<>> THEN 0 ELSE s[1].len + SegLen(Tail(s))
\* value.length of a string value
StrLength(v) == SegLen(v.s)

RECURSIVE SegTake(_, _)
SegTake(s, k) ==
    IF s = <<>> \/ k <= 0 THEN <<>>
    ELSE IF s[1].len <= k THEN <<s[1]>> \o SegTake(Tail(s), k - s[1].len)
    ELSE <<[base |-> s[1].base, len |-> k]>>
\* value.substring(0, k)
Substring0(v, k) == [t |-> "string", s |-> SegTake(v.s, k)]
\* a + b on strings
StrConcat(a, b) == [t |-> "string", s |-> a.s \o b.s]

REDACTED == JStr("[REDACTED]", 10)
TRUNCATED == JStr("...[TRUNCATED]", 14)
BINARY_DATA_REMOVED == JStr("[BINARY_DATA_REMOVED]", 21)

\* !value for the values of the model
Falsy(v) ==
    \/ v.t \in {"null", "undefined"}
    \/ v.t = "number" /\ v.n = 0
    \/ v.t = "boolean" /\ ~v.b
    \/ v.t = "string" /\ StrLength(v) = 0

\* String.prototype.toLowerCase, one character
LowerChar(c) ==
    CASE c = "A" -> "a" [] c = "B" -> "b" [] c = "C" -> "c" [] c = "D" -> "d"
      [] c = "E" -> "e" [] c = "F" -> "f" [] c = "G" -> "g" [] c = "H" -> "h"
      [] c = "I" -> "i" [] c = "J" -> "j" [] c = "K" -> "k" [] c = "L" -> "l"
      [] c = "M" -> "m" [] c = "N" -> "n" [] c = "O" -> "o" [] c = "P" -> "p"
      [] c = "Q" -> "q" [] c = "R" -> "r" [] c = "S" -> "s" [] c = "T" -> "t"
      [] c = "U" -> "u" [] c = "V" -> "v" [] c = "W" -> "w" [] c = "X" -> "x"
      [] c = "Y" -> "y" [] c = "Z" -> "z" [] OTHER -> c
toLowerCase(key) == [i \in DOMAIN key |-> LowerChar(key[i])]
\* String.prototype.includes
includes(key, term) ==
    \E i \in 0..(Len(key) - Len(term)) : SubSeq(key, i + 1, i + Len(term)) = term

----------------------------------------------------------------------------
\* utils.ts: sanitizeParameters and sanitizeResult

\* the list without its last term
sensitiveKeysWithoutPwd ==
    << <<"p","a","s","s","w","o","r","d">>, <<"t","o","k","e","n">>,
       <<"k","e","y">>, <<"s","e","c","r","e","t">>,
       <<"a","p","i","k","e","y">>, <<"a","p","i","_","k","e","y">>,
       <<"a","u","t","h">>,
       <<"a","u","t","h","o","r","i","z","a","t","i","o","n">>,
       <<"c","r","e","d","e","n","t","i","a","l">>, <<"p","a","s","s">> >>

\* sanitizeParameters, lines 5-8
sensitiveKeys ==
    << <<"p","a","s","s","w","o","r","d">>, <<"t","o","k","e","n">>,
       <<"k","e","y">>, <<"s","e","c","r","e","t">>,
       <<"a","p","i","k","e","y">>, <<"a","p","i","_","k","e","y">>,
       <<"a","u","t","h">>,
       <<"a","u","t","h","o","r","i","z","a","t","i","o","n">>,
       <<"c","r","e","d","e","n","t","i","a","l">>, <<"p","a","s","s">>,
       <<"p","w","d">> >>

\* sensitiveKeys.some(sensitive => lowerKey.includes(sensitive))
isSensitiveKey(key) ==
    \E i \in DOMAIN sensitiveKeys : includes(toLowerCase(key), sensitiveKeys[i])

\* a truncation whose marker tells how many characters were cut
sanitizeParameterValueCountsCut(key, value) ==
    LET redacted == IF isSensitiveKey(key) THEN REDACTED ELSE value
    IN IF redacted.t = "string" /\ StrLength(redacted) > 1000
       THEN StrConcat(Substring0(redacted, 1000),
                      JStr("...[TRUNCATED " \o ToString(StrLength(redacted) - 1000)
                               \o " chars]", 25))
       ELSE redacted

\* a redaction that masks a secret with as many stars as it has characters
sanitizeParameterValueMasksLength(key, value) ==
    LET redacted == IF isSensitiveKey(key)
                    THEN IF value.t = "string"
                         THEN JStr("*", StrLength(value))
                         ELSE REDACTED
                    ELSE value
    IN IF redacted.t = "string" /\ StrLength(redacted) > 1000
       THEN StrConcat(Substring0(redacted, 1000), TRUNCATED)
       ELSE redacted

\* the two steps of the loop body of sanitizeParameters for one entry
sanitizeParameterValue(key, value) ==
    LET redacted == IF isSensitiveKey(key) THEN REDACTED ELSE value
    IN IF redacted.t = "string" /\ StrLength(redacted) > 1000
       THEN StrConcat(Substring0(redacted, 1000), TRUNCATED)
       ELSE redacted

\* sanitizeParameters(params): {} for a non-object, else a shallow copy with
\* every entry sanitized
sanitizeParameters(params) ==
    IF Falsy(params) \/ params.t # "object" THEN JObj(<<>>)
    ELSE JObj([i \in DOMAIN params.entries |->
                 [k |-> params.entries[i].k,
                  v |-> sanitizeParameterValue(params.entries[i].k,
                                               params.entries[i].v)]])

\* the value of property name of an object, undefined when it has none
Get(obj, name) ==
    IF obj.t = "object" /\ \E i \in DOMAIN obj.entries : obj.entries[i].k = name
    THEN obj.entries[CHOOSE i \in DOMAIN obj.entries : obj.entries[i].k = name].v
    ELSE JUndefined

\* { ...obj, [name]: value }: the entry replaced in place, or added at the end
Put(obj, name, value) ==
    IF \E i \in DOMAIN obj.entries : obj.entries[i].k = name
    THEN JObj([i \in DOMAIN obj.entries |->
                 IF obj.entries[i].k = name THEN [k |-> name, v |-> value]
                 ELSE obj.entries[i]])
    ELSE JObj(Append(obj.entries, [k |-> name, v |-> value]))

K_type == <<"t","y","p","e">>
K_text == <<"t","e","x","t">>
K_data == <<"d","a","t","a">>
K_mimeType == <<"m","i","m","e","T","y","p","e">>
K_content == <<"c","o","n","t","e","n","t">>
K_originalLength == <<"_","o","r","i","g","i","n","a","l","L","e","n","g","t","h">>
K_dataSize == <<"_","d","a","t","a","S","i","z","e">>
K_mimeTypeOut == <<"_","m","i","m","e","T","y","p","e">>
K_type2 == <<"_","t","y","p","e">>
K_items == <<"i","t","e","m","s">>
K_truncated == <<"_","t","r","u","n","c","a","t","e","d">>
K_totalFields == <<"_","t","o","t","a","l","F","i","e","l","d","s">>

\* sanitizeGenericResult: strings are cut at 2000 characters, arrays at 20
\* elements, objects at 50 fields, recursively
RECURSIVE sanitizeGenericResult(_)
sanitizeGenericResult(result) ==
    IF result.t = "string"
    THEN IF StrLength(result) > 2000
         THEN StrConcat(Substring0(result, 2000), TRUNCATED)
         ELSE result
    ELSE IF result.t \in {"number", "boolean"} THEN result
    ELSE IF result.t = "array"
    THEN JObj(<< [k |-> K_type2, v |-> JStr("array", 5)],
                 [k |-> K_originalLength, v |-> JNum(Len(result.items))],
                 [k |-> K_items,
                  v |-> JArr([i \in 1..Min(20, Len(result.items)) |->
                                sanitizeGenericResult(result.items[i])])] >>)
    ELSE IF result.t = "object"
    THEN LET n == Len(result.entries)
             kept == [i \in 1..Min(50, n) |->
                        [k |-> result.entries[i].k,
                         v |-> sanitizeGenericResult(result.entries[i].v)]]
         IN IF n > 50
            THEN JObj(kept \o << [k |-> K_truncated, v |-> JBool(TRUE)],
                                 [k |-> K_totalFields, v |-> JNum(n)] >>)
            ELSE JObj(kept)
    ELSE result

\* sanitizeContentItem: text over 2000 characters is cut, image data is
\* replaced by a marker with its size and mime type
sanitizeContentItem(item) ==
    IF Falsy(item) \/ item.t # "object" THEN item
    ELSE LET type == Get(item, K_type)
             text == Get(item, K_text)
             data == Get(item, K_data)
             mime == Get(item, K_mimeType)
         IN IF type = JStr("text", 4)
            THEN IF text.t = "string" /\ StrLength(text) > 2000
                 THEN Put(Put(item, K_text,
                              StrConcat(Substring0(text, 2000), TRUNCATED)),
                          K_originalLength, JNum(StrLength(text)))
                 ELSE item
            ELSE IF type = JStr("image", 5)
            THEN IF ~Falsy(data)
                 THEN Put(Put(Put(item, K_data, BINARY_DATA_REMOVED),
                              K_dataSize,
                              IF data.t = "string" THEN JNum(StrLength(data))
                              ELSE JStr("unknown", 7)),
                          K_mimeTypeOut,
                          IF Falsy(mime) THEN JStr("unknown", 7) ELSE mime)
                 ELSE item
            ELSE IF type = JStr("resource", 8)
            THEN IF text.t = "string" /\ StrLength(text) > 1000
                 THEN Put(Put(item, K_text,
                              StrConcat(Substring0(text, 1000), TRUNCATED)),
                          K_originalLength, JNum(StrLength(text)))
                 ELSE item
            ELSE sanitizeGenericResult(item)

\* a property whose value is the object that holds it: a cycle
JRef == [t |-> "ref"]
\* a call that threw instead of returning: here the RangeError of a
\* recursion that never ends
Raised ==
    [t |-> "raise",
     error |-> JError(JStr("RangeError", 10),
                      JStr("Maximum call stack size exceeded", 31))]

\* the try block of sanitizeResult, lines 29-38: an MCP result with its
\* content items sanitized, anything else by sanitizeGenericResult; the
\* recursion of sanitizeGenericResult does not end on a cycle
sanitizeResultTry(result) ==
    LET RECURSIVE overflows(_)
        overflows(v) ==
            IF v.t = "ref" THEN TRUE
            ELSE IF v.t = "array"
            THEN \E i \in 1..Min(20, Len(v.items)) : overflows(v.items[i])
            ELSE IF v.t = "object"
            THEN \E i \in 1..Min(50, Len(v.entries)) :
                     overflows(v.entries[i].v)
            ELSE FALSE
        itemOverflows(item) ==
            /\ ~Falsy(item) /\ item.t = "object"
            /\ Get(item, K_type) \notin {JStr("text", 4), JStr("image", 5),
                                         JStr("resource", 8)}
            /\ overflows(item)
        content == Get(result, K_content)
    IN IF content.t = "array"
       THEN IF \E i \in DOMAIN content.items : itemOverflows(content.items[i])
            THEN Raised
            ELSE Put(result, K_content,
                     JArr([i \in DOMAIN content.items |->
                             sanitizeContentItem(content.items[i])]))
       ELSE IF overflows(result) THEN Raised
       ELSE sanitizeGenericResult(result)

\* a sanitizeResult whose try block has no catch
sanitizeResultUncaught(result) ==
    IF Falsy(result) THEN result ELSE sanitizeResultTry(result)

\* sanitizeResult(result), lines 25-46: a falsy result as it is, else the try
\* block, and the fixed marker when the try block threw
sanitizeResult(result) ==
    IF Falsy(result) THEN result
    ELSE IF sanitizeResultTry(result) = Raised
    THEN JObj(<< [k |-> <<"_","s","a","n","i","t","i","z","a","t","i","o","n",
                          "E","r","r","o","r">>,
                  v |-> JStr("Failed to sanitize result", 25)],
                 [k |-> <<"_","r","e","s","u","l","t","T","y","p","e">>,
                  v |-> IF result.t \in {"string", "number", "boolean"}
                        THEN JStr(result.t, Len(result.t))
                        ELSE JStr("object", 6)] >>)
    ELSE sanitizeResultTry(result)

----------------------------------------------------------------------------
\* AnalyticsClient

\* constructor: Math.min(config.batchSize || 20, 25)
constructorBatchSize(cfg) ==
    Min(IF cfg = 0 THEN DefaultBatchSize ELSE cfg, MaxBatchSize)

\* constructor: the timer is set up unless flushInterval === 0
constructorFlushTimer(interval) == interval # 0

\* Array.prototype.splice(0, deleteCount) on an array of length len: the
\* number of elements removed is min(max(deleteCount, 0), len)
spliceCount(len, deleteCount) == Min(Max(deleteCount, 0), len)

\* sendEvents, lines 44-55: the checks made before any request is issued;
\* destroyed is this.isDestroyed at the time of the call
sendEventsCheck(events, destroyed) ==
    IF destroyed THEN "Client has been destroyed"
    ELSE IF ~apiKey THEN "Analytics API key not configured"
    ELSE IF Len(events) = 0 THEN "No events to send"
    ELSE IF Len(events) > MaxBatchSize THEN "Too many events"
    ELSE "ok"

\* How a send can settle once the request is issued (lines 59-89): the
\* response is ok and parses, fetch rejects, the response is not ok, or
\* response.json() rejects
SendOutcomes == {"ok", "network", "http", "malformed"}

\* sendEvents resolves only on an ok response with a parsable body; the other
\* outcomes throw an APIError
sendEventsResolves(outcome) == outcome = "ok"

\* flush, lines 118-122: the catch swallows whatever sendEvents throws, so the
\* promise flush returns always resolves
flushSettles(sendResolved) == "resolved"

\* sendEvents(events) as called from flush: a failed check rejects at once
\* (and flush's catch logs it: the batch is gone); otherwise the request is
\* issued and the batch is in flight
sendEvents(events, destroyed) ==
    /\ sendCalls' = Append(sendCalls, events)
    /\ IF sendEventsCheck(events, destroyed) = "ok"
       THEN /\ inflight' = inflight \cup {events}
            /\ UNCHANGED <<delivered, discarded, lastFlush>>
       ELSE /\ discarded' = discarded \cup Range(events)
            /\ lastFlush' = flushSettles(FALSE)
            /\ UNCHANGED <<inflight, delivered>>

\* a flush that sends the front of the queue and leaves it in the queue
flushWithoutRemoval(q, destroyed) ==
    IF destroyed \/ Len(q) = 0
    THEN /\ eventQueue' = q
         /\ UNCHANGED <<inflight, sendCalls, delivered, discarded, lastFlush,
                        lastSplice>>
    ELSE LET n == spliceCount(Len(q), batchSize)
             eventsToSend == SubSeq(q, 1, n)
         IN /\ eventQueue' = q
            /\ lastSplice' = [before |-> q, removed |-> eventsToSend]
            /\ sendEvents(eventsToSend, destroyed)

\* a flush that does nothing until the queue holds a full batch
flushOnlyFullBatches(q, destroyed) ==
    IF destroyed \/ Len(q) = 0 \/ Len(q) < batchSize
    THEN /\ eventQueue' = q
         /\ UNCHANGED <<inflight, sendCalls, delivered, discarded, lastFlush,
                        lastSplice>>
    ELSE LET n == spliceCount(Len(q), batchSize)
             eventsToSend == SubSeq(q, 1, n)
         IN /\ eventQueue' = SubSeq(q, n + 1, Len(q))
            /\ lastSplice' = [before |-> q, removed |-> eventsToSend]
            /\ sendEvents(eventsToSend, destroyed)

\* flush() on a queue holding q, up to its await: the no-op return, or the
\* splice and the call of sendEvents
flush(q, destroyed) ==
    IF destroyed \/ Len(q) = 0
    THEN /\ eventQueue' = q
         /\ UNCHANGED <<inflight, sendCalls, delivered, discarded, lastFlush,
                        lastSplice>>
    ELSE LET n == spliceCount(Len(q), batchSize)
             eventsToSend == SubSeq(q, 1, n)
         IN /\ eventQueue' = SubSeq(q, n + 1, Len(q))
            /\ lastSplice' = [before |-> q, removed |-> eventsToSend]
            /\ sendEvents(eventsToSend, destroyed)

\* a queueEvent without the check of isDestroyed
queueEventWhenDestroyed(event) ==
    LET q == Append(eventQueue, event)
    IN /\ accepted' = accepted \cup {event}
       /\ IF Len(q) >= batchSize
          THEN flush(q, isDestroyed)
          ELSE /\ eventQueue' = q
               /\ UNCHANGED <<inflight, sendCalls, delivered, discarded,
                              lastFlush, lastSplice>>

\* a queueEvent that flushes only once the queue has passed the batch size
queueEventFlushesLate(event) ==
    IF isDestroyed
    THEN UNCHANGED <<eventQueue, netVars>>
    ELSE LET q == Append(eventQueue, event)
         IN /\ accepted' = accepted \cup {event}
            /\ IF Len(q) > batchSize
               THEN flush(q, isDestroyed)
               ELSE /\ eventQueue' = q
                    /\ UNCHANGED <<inflight, sendCalls, delivered, discarded,
                                   lastFlush, lastSplice>>

\* queueEvent(event): push, then flush (not awaited) when the batch size is
\* reached
queueEvent(event) ==
    IF isDestroyed
    THEN UNCHANGED <<eventQueue, netVars>>
    ELSE LET q == Append(eventQueue, event)
         IN /\ accepted' = accepted \cup {event}
            /\ IF Len(q) >= batchSize
               THEN flush(q, isDestroyed)
               ELSE /\ eventQueue' = q
                    /\ UNCHANGED <<inflight, sendCalls, delivered, discarded,
                                   lastFlush, lastSplice>>

\* a failed send that put its batch back at the front of the queue
sendSettlesRequeue(b, outcome) ==
    /\ inflight' = inflight \ {b}
    /\ IF sendEventsResolves(outcome)
       THEN delivered' = delivered \cup Range(b) /\ UNCHANGED <<discarded, eventQueue>>
       ELSE /\ discarded' = discarded \cup Range(b)
            /\ eventQueue' = b \o eventQueue
            /\ UNCHANGED delivered
    /\ lastFlush' = flushSettles(sendEventsResolves(outcome))
    /\ UNCHANGED <<sendCalls, accepted, lastSplice>>

\* the rest of flush() after its await: the send of batch b settles; the
\* batch is not put back whatever the outcome
sendSettles(b, outcome) ==
    /\ inflight' = inflight \ {b}
    /\ IF sendEventsResolves(outcome)
       THEN delivered' = delivered \cup Range(b) /\ UNCHANGED discarded
       ELSE discarded' = discarded \cup Range(b) /\ UNCHANGED delivered
    /\ lastFlush' = flushSettles(sendEventsResolves(outcome))
    /\ UNCHANGED <<eventQueue, sendCalls, accepted, lastSplice>>

\* destroy(): set the flag, clear the timer, then await flush(), which runs
\* with this.isDestroyed already true
destroy ==
    /\ isDestroyed' = TRUE
    /\ flushTimer' = FALSE
    /\ flush(eventQueue, TRUE)
    /\ UNCHANGED accepted

----------------------------------------------------------------------------
\* What a tool registration is given, and the inputs of its invocations

Invocations == 1..MaxInvocations

toolName == JStr("add", 3)
priceId == JStr("price_1", 7)
paymentReason == JStr("pay to add", 10)
userEmail == JStr("u@example.com", 13)

K_a == <<"a">>
K_b == <<"b">>
K_apiKey == <<"a","p","i","K","e","y">>
K_query == <<"q","u","e","r","y">>
K_creditCard == <<"c","r","e","d","i","t","C","a","r","d">>
K_userPwd == <<"u","s","e","r","P","w","d">>
K_requestId == <<"r","e","q","u","e","s","t","I","d">>
K_status == <<"s","t","a","t","u","s">>
K_error == <<"e","r","r","o","r">>
K_isError == <<"i","s","E","r","r","o","r">>
K_paymentType == <<"p","a","y","m","e","n","t","T","y","p","e">>
K_checkoutUrl == <<"c","h","e","c","k","o","u","t","U","r","l">>
K_paymentReason == <<"p","a","y","m","e","n","t","R","e","a","s","o","n">>

\* the args objects callers pass: plain numbers, and secrets with a long
\* string
ArgsSet ==
    { JObj(<< [k |-> K_a, v |-> JNum(5)], [k |-> K_b, v |-> JNum(3)] >>),
      JObj(<< [k |-> K_apiKey, v |-> JStr("sk-live", 7)],
              [k |-> K_query, v |-> JStr("query text", 1500)],
              [k |-> K_creditCard, v |-> JStr("4111-1111", 9)],
              [k |-> K_userPwd, v |-> JStr("hunter2", 7)] >>) }

\* the extra argument of the tool-serving framework
ExtraSet == { JObj(<< [k |-> K_requestId, v |-> JStr("req-1", 5)] >>) }

textItem(text) ==
    JObj(<< [k |-> K_type, v |-> JStr("text", 4)], [k |-> K_text, v |-> text] >>)
mcpResult(items) == JObj(<< [k |-> K_content, v |-> JArr(items)] >>)

\* what the original callback can return: a short text, a text of 2500
\* characters
ResultSet ==
    { mcpResult(<< textItem(JStr("Result: 8", 9)) >>),
      mcpResult(<< textItem(JStr("report", 2500)) >>) }

\* what the original callback can throw: an Error, or a value that is no object
ThrownSet ==
    { JError(JStr("Error", 5), JStr("Original tool error", 19)), JNull }

\* the error a failed call of the payment platform rejects with
StripeError(call) == JError(JStr("StripeAPIError", 14), JStr(call, 20))

\* no pending error in the frame of an invocation
NoError == [t |-> "none"]

\* reading .constructor or .message of null or undefined throws a TypeError
throwsOnPropertyRead(v) == v.t \in {"null", "undefined"}
PropertyReadTypeError ==
    JError(JStr("TypeError", 9), JStr("Cannot read properties of null", 30))
\* (error as Error).constructor.name
constructorName(v) ==
    IF v.t = "error" THEN v.class
    ELSE IF v.t = "string" THEN JStr("String", 6)
    ELSE IF v.t = "number" THEN JStr("Number", 6)
    ELSE IF v.t = "boolean" THEN JStr("Boolean", 7)
    ELSE IF v.t = "array" THEN JStr("Array", 5)
    ELSE JStr("Object", 6)
\* (error as Error).message
messageOf(v) == IF v.t = "error" THEN v.message ELSE JUndefined

----------------------------------------------------------------------------
\* The payment platform as the wrapper sees it

\* a checkout session as listed by the platform
CheckoutSession(id, tool, status, subscription, amount, currency, created) ==
    [id |-> id, toolName |-> tool, payment_status |-> status,
     subscription |-> subscription, amount_total |-> amount,
     currency |-> currency, created |-> created]

\* sessions.data.find(...) || null found nothing
NoSession ==
    CheckoutSession(JUndefined, JUndefined, JUndefined, JUndefined, JUndefined,
                    JUndefined, 0)

PaidOneTime ==
    CheckoutSession(JStr("cs_1", 4), toolName, JStr("paid", 4), JNull,
                    JNum(2999), JStr("usd", 3), 1700000000)
Unpaid ==
    CheckoutSession(JStr("cs_2", 4), toolName, JStr("unpaid", 6), JNull,
                    JNum(2999), JStr("usd", 3), 1700000001)
PaidOtherTool ==
    CheckoutSession(JStr("cs_3", 4), JStr("other", 5), JStr("paid", 4), JNull,
                    JNum(500), JStr("usd", 3), 1700000002)
PaidSubscription ==
    CheckoutSession(JStr("cs_4", 4), toolName, JStr("paid", 4),
                    JStr("sub_1", 5), JNum(999), JStr("eur", 3), 1700000003)
\* a subscription: its status and the price ids of its items
Subscription(id, status) == [id |-> id, status |-> status, prices |-> <<priceId>>]

\* what the platform holds for the billing email when the tool is registered:
\* the customers with that email, the customer's checkout sessions and
\* subscriptions
PlatformStates ==
    { \* a new user
      [customers |-> <<>>, sessions |-> <<>>, subscriptions |-> <<>>],
      \* an active subscription to the tool's price, no paid session of the tool
      [customers |-> <<JStr("cus_1", 5)>>, sessions |-> <<Unpaid, PaidOtherTool>>,
       subscriptions |-> <<Subscription(JStr("sub_7", 5), "active")>>],
      \* a one-time payment for the tool
      [customers |-> <<JStr("cus_1", 5)>>, sessions |-> <<Unpaid, PaidOneTime>>,
       subscriptions |-> <<>>],
      \* a paid subscription checkout, the subscription active
      [customers |-> <<JStr("cus_1", 5)>>, sessions |-> <<PaidSubscription>>,
       subscriptions |-> <<Subscription(JStr("sub_1", 5), "active")>>],
      \* a paid subscription checkout, the subscription canceled since
      [customers |-> <<JStr("cus_1", 5)>>, sessions |-> <<PaidSubscription>>,
       subscriptions |-> <<Subscription(JStr("sub_1", 5), "canceled")>>] }

\* ids the platform gives the customers it creates
CustomerIds == << JStr("cus_1", 5), JStr("cus_2", 5), JStr("cus_3", 5),
                  JStr("cus_4", 5), JStr("cus_5", 5), JStr("cus_6", 5) >>

\* getCurrentCustomerID, lines 101-104: the listed customer with the email
findCustomer(customers) ==
    IF Len(customers) > 0 THEN customers[1] ELSE JNull

\* getPaymentSessionData, lines 120-125: the first session whose metadata
\* names the tool and whose payment status is 'paid', or null
getPaymentSessionData(sessions, tool) ==
    LET hits == {i \in DOMAIN sessions :
                    /\ sessions[i].toolName = tool
                    /\ sessions[i].payment_status = JStr("paid", 4)}
    IN IF hits = {} THEN NoSession
       ELSE sessions[CHOOSE i \in hits : \A j \in hits : i <= j]

\* isToolPaidFor, line 131: the subscriptions are looked up only for a paid
\* session that has a subscription
needsSubscriptionLookup(paidSession) ==
    paidSession # NoSession /\ ~Falsy(paidSession.subscription)

\* isToolPaidFor, lines 132-138: stripe.subscriptions.list({status: 'active'})
\* and the search for an item with the tool's price
findActiveSub(subscriptions) ==
    \E i \in DOMAIN subscriptions :
        /\ subscriptions[i].status = "active"
        /\ \E j \in DOMAIN subscriptions[i].prices :
               subscriptions[i].prices[j] = priceId

\* a paid subscription checkout counts only while the subscription is active
isToolPaidForActiveOnly(paidSession, lookedUp, subscriptions) ==
    IF lookedUp THEN findActiveSub(subscriptions)
    ELSE paidSession # NoSession

\* isToolPaidFor, lines 139-144: true for an active subscription found, and
\* otherwise !!paidSession
isToolPaidFor(paidSession, lookedUp, subscriptions) ==
    IF lookedUp /\ findActiveSub(subscriptions) THEN TRUE
    ELSE paidSession # NoSession

\* safeString, lines 30-35
safeString(value) ==
    IF value.t \in {"null", "undefined"} THEN JNull
    ELSE IF value.t = "string" THEN value
    ELSE IF value.t = "object" /\ ~Falsy(Get(value, <<"i","d">>))
    THEN Get(value, <<"i","d">>)
    ELSE [t |-> "String()", of |-> value]

\* a safeNumber that answers 0 where the source answers null
safeNumberZero(value) ==
    IF value.t \in {"null", "undefined"} THEN JNum(0)
    ELSE IF value.t = "number" THEN value
    ELSE JNum(0)

\* safeNumber, lines 37-42 (Number(value) of a non-number is not modelled
\* beyond the values that are no number at all)
safeNumber(value) ==
    IF value.t \in {"null", "undefined"} THEN JNull
    ELSE IF value.t = "number" THEN value
    ELSE JNull

\* new Date(created * 1000).toISOString(): the ISO text of the instant that is
\* created seconds after the epoch
toISOString(created) == [t |-> "isodate", epochSeconds |-> created]

\* JSON.stringify(value): the string that encodes value
JSONstringify(value) == [t |-> "json", of |-> value]

\* a payment-required response that carries no checkout URL
paymentRequiredResultNoUrl(paymentType, url) ==
    mcpResult(<< textItem(JSONstringify(
        JObj(<< [k |-> K_status, v |-> JStr("payment_required", 16)],
                [k |-> K_data,
                 v |-> JObj(<< [k |-> K_paymentType, v |-> paymentType],
                               [k |-> K_paymentReason, v |-> paymentReason] >>)]
             >>))) >>)

\* createCheckoutSession, lines 160-175: the payment-required response
paymentRequiredResult(paymentType, url) ==
    mcpResult(<< textItem(JSONstringify(
        JObj(<< [k |-> K_status, v |-> JStr("payment_required", 16)],
                [k |-> K_data,
                 v |-> JObj(<< [k |-> K_paymentType, v |-> paymentType],
                               [k |-> K_checkoutUrl, v |-> url],
                               [k |-> K_paymentReason, v |-> paymentReason] >>)]
             >>))) >>)

\* an error response without the isError flag
checkoutErrorResultUnflagged(error) ==
    mcpResult(<< textItem(JSONstringify(
        JObj(<< [k |-> K_status, v |-> JStr("error", 5)],
                [k |-> K_error, v |-> JStr("Unknown error", 13)] >>))) >>)

\* createCheckoutSession, lines 176-203: the error response
checkoutErrorResult(error) ==
    Put(mcpResult(<< textItem(JSONstringify(
            JObj(<< [k |-> K_status, v |-> JStr("error", 5)],
                    [k |-> K_error,
                     v |-> IF error.t = "error" /\ error.message.t = "string"
                           THEN error.message
                           ELSE JStr("Unknown error", 13)] >>))) >>),
        K_isError, JBool(TRUE))

----------------------------------------------------------------------------
\* The events the wrappers build

\* the fields every event has; a field an event does not set is undefined
baseEvent(i, eventType, args, success) ==
    [id |-> i, eventType |-> eventType,
     parameters |-> sanitizeParameters(IF Falsy(args) THEN JObj(<<>>) ELSE args),
     success |-> success,
     result |-> JUndefined, errorType |-> JUndefined,
     errorMessage |-> JUndefined, customerId |-> JUndefined,
     paymentType |-> JUndefined, priceId |-> JUndefined,
     paymentStatus |-> JUndefined, paymentAmount |-> JUndefined,
     paymentCurrency |-> JUndefined, paymentDate |-> JUndefined,
     paymentSessionId |-> JUndefined, subscriptionId |-> JUndefined]

\* options.trackResults !== false ? sanitizeResult(result) : undefined
trackedResult(result) ==
    IF ~options.trackResults THEN JUndefined
    ELSE IF sanitizeResult(result) = Raised
    THEN JObj(<< [k |-> <<"_","s","a","n","i","t","i","z","a","t","i","o","n",
                          "F","a","i","l","e","d">>,
                  v |-> JBool(TRUE)] >>)
    ELSE sanitizeResult(result)

\* register-analytics-tool.ts, lines 145-159
completedEvent(i, args, result) ==
    [baseEvent(i, "mcp.tool.completed", args, TRUE)
        EXCEPT !.result = trackedResult(result)]

\* register-analytics-tool.ts, lines 176-192
failedEvent(i, args, error) ==
    [baseEvent(i, "mcp.tool.failed", args, FALSE)
        EXCEPT !.errorType = constructorName(error),
               !.errorMessage = messageOf(error)]

\* options.meterEvent ? 'usageBased' : 'oneTimeSubscription'
paymentType ==
    IF options.meterEvent THEN JStr("usageBased", 10)
    ELSE JStr("oneTimeSubscription", 19)

\* a payment_required event that leaves out the payment status and the
\* customer
paymentRequiredEventWithoutStatus(i, args, customerId) ==
    [baseEvent(i, "mcp.tool.payment_required", args, FALSE)
        EXCEPT !.paymentType = paymentType,
               !.priceId = safeString(priceId)]

\* register-analytics-paid-tool.ts, lines 274-297
paymentRequiredEvent(i, args, customerId) ==
    [baseEvent(i, "mcp.tool.payment_required", args, FALSE)
        EXCEPT !.customerId = customerId, !.paymentType = paymentType,
               !.priceId = safeString(priceId),
               !.paymentStatus = JStr("required", 8),
               !.paymentAmount = JNull, !.paymentCurrency = JNull,
               !.paymentDate = JNull, !.paymentSessionId = JNull,
               !.subscriptionId = JNull]

\* a payment_completed event without the fields of the payment session
paymentCompletedEventWithoutSession(i, args, result, customerId, paymentSession) ==
    [baseEvent(i, "mcp.tool.payment_completed", args, TRUE)
        EXCEPT !.result = trackedResult(result),
               !.customerId = customerId,
               !.paymentAmount = JNull, !.paymentCurrency = JNull,
               !.paymentDate = JNull, !.paymentSessionId = JNull,
               !.paymentType = paymentType,
               !.priceId = safeString(priceId),
               !.paymentStatus = JNull, !.subscriptionId = JNull]

\* register-analytics-paid-tool.ts, lines 336-360
paymentCompletedEvent(i, args, result, customerId, paymentSession) ==
    [baseEvent(i, "mcp.tool.payment_completed", args, TRUE)
        EXCEPT !.result = trackedResult(result),
               !.customerId = customerId,
               !.paymentAmount = safeNumber(paymentSession.amount_total),
               !.paymentCurrency = safeString(paymentSession.currency),
               !.paymentDate = IF paymentSession # NoSession
                               THEN toISOString(paymentSession.created)
                               ELSE JNull,
               !.paymentSessionId = safeString(paymentSession.id),
               !.paymentType = paymentType,
               !.priceId = safeString(priceId),
               !.paymentStatus = safeString(paymentSession.payment_status),
               !.subscriptionId = safeString(paymentSession.subscription)]

\* a payment_failed event that carries the arguments as they were passed
paymentFailedEventRawParameters(i, args, error, errorCustomerId) ==
    [baseEvent(i, "mcp.tool.payment_failed", args, FALSE)
        EXCEPT !.parameters = args,
               !.errorType = constructorName(error),
               !.errorMessage = messageOf(error),
               !.customerId = errorCustomerId, !.paymentType = paymentType,
               !.priceId = safeString(priceId),
               !.paymentAmount = JNull, !.paymentCurrency = JNull,
               !.paymentDate = JNull, !.paymentSessionId = JNull,
               !.paymentStatus = JNull, !.subscriptionId = JNull]

\* register-analytics-paid-tool.ts, lines 383-408
paymentFailedEvent(i, args, error, errorCustomerId) ==
    [baseEvent(i, "mcp.tool.payment_failed", args, FALSE)
        EXCEPT !.errorType = constructorName(error),
               !.errorMessage = messageOf(error),
               !.customerId = errorCustomerId, !.paymentType = paymentType,
               !.priceId = safeString(priceId),
               !.paymentAmount = JNull, !.paymentCurrency = JNull,
               !.paymentDate = JNull, !.paymentSessionId = JNull,
               !.paymentStatus = JNull, !.subscriptionId = JNull]

\* the state of the invocations and of the platform before any invocation
NotSettled == [kind |-> "pending", value |-> JUndefined]

\* the locals of an invocation; original is what the original callback did
InitFrame ==
    [args |-> JUndefined, extra |-> JUndefined, customerId |-> JUndefined,
     paidSession |-> NoSession, paymentSession |-> NoSession,
     paid |-> "unknown", error |-> NoError, original |-> NotSettled]

InitInvocations ==
    /\ pc = [i \in Invocations |-> "idle"]
    /\ frame = [i \in Invocations |-> InitFrame]
    /\ calls = [i \in Invocations |-> <<>>]
    /\ completion = [i \in Invocations |-> NotSettled]
    /\ queued = [i \in Invocations |-> <<>>]

NoStripe ==
    [customers |-> <<>>, sessions |-> <<>>, subscriptions |-> <<>>,
     meterEvents |-> <<>>, checkouts |-> <<>>]

----------------------------------------------------------------------------
\* SpecClient: one client driven through its public methods

InitNet ==
    /\ inflight = {}
    /\ sendCalls = <<>>
    /\ delivered = {}
    /\ discarded = {}
    /\ lastFlush = "none"
    /\ accepted = {}
    /\ lastSplice = [before |-> <<>>, removed |-> <<>>]

\* ---------------------------------------------------------------------
\* AgentUtils.extractUserInfo (core/shared-utils.ts), the getUserInfo the
\* agents hand to the wrappers
\* ---------------------------------------------------------------------

\* String.prototype.trim; a run of white space is a segment of base " "
trim(v) ==
    LET RECURSIVE DropLeading(_)
        DropLeading(s) ==
            IF s = <<>> THEN <<>>
            ELSE IF s[1].base = " " THEN DropLeading(Tail(s))
            ELSE s
        RECURSIVE DropTrailing(_)
        DropTrailing(s) ==
            IF s = <<>> THEN <<>>
            ELSE IF s[Len(s)].base = " "
            THEN DropTrailing(SubSeq(s, 1, Len(s) - 1))
            ELSE s
    IN [t |-> "string", s |-> DropTrailing(DropLeading(v.s))]

\* shared-utils.ts lines 30-119 (AnalyticsMcpAgent.ts lines 58-150 repeat it
\* on this.props)
extractUserInfo(p) ==
    LET StringOf(value) ==
            IF value.t = "string" THEN value
            ELSE JStr("[object Object]", 15)
        safeStr(value) ==
            IF \/ value.t \in {"null", "undefined"}
               \/ value.t = "string" /\ StrLength(value) = 0
            THEN JUndefined
            ELSE IF StrLength(trim(StringOf(value))) = 0 THEN JUndefined
            ELSE trim(StringOf(value))
        isObject(value) == ~Falsy(value) /\ value.t = "object"
        claims == Get(p, <<"c","l","a","i","m","s">>)
        user == Get(p, <<"u","s","e","r">>)
        login == Get(p, <<"l","o","g","i","n">>)
        userId ==
            IF ~Falsy(Get(p, <<"u","s","e","r","I","d">>))
            THEN safeStr(Get(p, <<"u","s","e","r","I","d">>))
            ELSE IF ~Falsy(Get(p, <<"s","u","b">>))
            THEN safeStr(Get(p, <<"s","u","b">>))
            ELSE IF isObject(claims)
            THEN IF ~Falsy(Get(claims, <<"s","u","b">>))
                 THEN safeStr(Get(claims, <<"s","u","b">>))
                 ELSE JUndefined
            ELSE IF isObject(user)
            THEN IF ~Falsy(Get(user, <<"i","d">>))
                 THEN safeStr(Get(user, <<"i","d">>))
                 ELSE JUndefined
            ELSE IF ~Falsy(login) THEN safeStr(login)
            ELSE JUndefined
        email ==
            IF ~Falsy(Get(p, <<"e","m","a","i","l">>))
            THEN safeStr(Get(p, <<"e","m","a","i","l">>))
            ELSE IF ~Falsy(Get(p, <<"u","s","e","r","E","m","a","i","l">>))
            THEN safeStr(Get(p, <<"u","s","e","r","E","m","a","i","l">>))
            ELSE IF isObject(claims)
            THEN IF ~Falsy(Get(claims, <<"e","m","a","i","l">>))
                 THEN safeStr(Get(claims, <<"e","m","a","i","l">>))
                 ELSE JUndefined
            ELSE IF isObject(user)
            THEN IF ~Falsy(Get(user, <<"e","m","a","i","l">>))
                 THEN safeStr(Get(user, <<"e","m","a","i","l">>))
                 ELSE JUndefined
            ELSE JUndefined
        username ==
            IF ~Falsy(Get(p, <<"u","s","e","r","n","a","m","e">>))
            THEN safeStr(Get(p, <<"u","s","e","r","n","a","m","e">>))
            ELSE IF ~Falsy(Get(p, <<"n","a","m","e">>))
            THEN safeStr(Get(p, <<"n","a","m","e">>))
            ELSE IF ~Falsy(login) THEN safeStr(login)
            ELSE IF isObject(claims)
            THEN IF ~Falsy(Get(claims, <<"n","a","m","e">>))
                 THEN safeStr(Get(claims, <<"n","a","m","e">>))
                 ELSE IF ~Falsy(Get(claims, <<"p","r","e","f","e","r","r","e","d","_","u","s","e","r","n","a","m","e">>))
                 THEN safeStr(Get(claims, <<"p","r","e","f","e","r","r","e","d","_","u","s","e","r","n","a","m","e">>))
                 ELSE JUndefined
            ELSE IF isObject(user)
            THEN IF ~Falsy(Get(user, <<"n","a","m","e">>))
                 THEN safeStr(Get(user, <<"n","a","m","e">>))
                 ELSE IF ~Falsy(Get(user, <<"u","s","e","r","n","a","m","e">>))
                 THEN safeStr(Get(user, <<"u","s","e","r","n","a","m","e">>))
                 ELSE JUndefined
            ELSE JUndefined
    IN IF Falsy(p)
       THEN [userId |-> JUndefined, email |-> JUndefined, username |-> JUndefined]
       ELSE [userId |-> userId, email |-> email, username |-> username]

\* the props an OAuth provider may supply: null, or an object holding any of
\* the fields extractUserInfo reads (an undefined field is left out)
PropsSet ==
    LET Entry(k, v) == IF v = JUndefined THEN <<>> ELSE <<[k |-> k, v |-> v]>>
        Empty == [t |-> "string", s |-> <<>>]
        Padded(text, len) ==
            [t |-> "string",
             s |-> <<[base |-> " ", len |-> 1], [base |-> text, len |-> len],
                     [base |-> " ", len |-> 2]>>]
    IN {JNull} \cup
       { JObj(Entry(<<"u","s","e","r","I","d">>, uid)
              \o Entry(<<"s","u","b">>, sub)
              \o Entry(<<"e","m","a","i","l">>, em)
              \o Entry(<<"u","s","e","r","E","m","a","i","l">>, ue)
              \o Entry(<<"c","l","a","i","m","s">>, cl)
              \o Entry(<<"u","s","e","r">>, us)
              \o Entry(<<"l","o","g","i","n">>, lg)
              \o Entry(<<"n","a","m","e">>, nm)) :
           uid \in {JUndefined, Empty, JStr("user-1", 6)},
           sub \in {JUndefined, JStr("auth0|42", 8)},
           em \in {JUndefined, JStr("ada@example.com", 15),
                   Padded("ada@example.com", 15), JStr(" ", 3)},
           ue \in {JUndefined, JStr("ada@corp.example", 16)},
           cl \in {JUndefined, JObj(<<>>),
                   JObj(<<[k |-> <<"s","u","b">>, v |-> JStr("oidc-7", 6)],
                          [k |-> <<"n","a","m","e">>, v |-> JStr("Ada", 3)]>>)},
           us \in {JUndefined,
                   JObj(<<[k |-> <<"i","d">>, v |-> JStr("id-9", 4)],
                          [k |-> <<"e","m","a","i","l">>,
                           v |-> JStr("ada@user.example", 16)]>>)},
           lg \in {JUndefined, JStr("octocat", 7)},
           nm \in {JUndefined, JStr("Ada L", 5)} }

\* let userInfo: UserInfo = {} (register-analytics-tool.ts line 103)
NoUserInfo == JObj(<<>>)

\* no call has been made: no args, no result
NoSanitizeInput == [args |-> <<>>, result |-> JUndefined]
\* a server on which no tool is registered: no client exists
NoServer == [tools |-> <<>>, clients |-> <<>>]

\* an agent whose props the provider has set; no tool has run yet
InitUser ==
    /\ props \in PropsSet
    /\ userInfo = NoUserInfo
    /\ sanIn = NoSanitizeInput
    /\ sanOut = <<>>
    /\ server = NoServer
    /\ agentCall = [outcome |-> "none", unhandledRejection |-> FALSE]
    /\ apiKey = TRUE
    /\ batchSize = DefaultBatchSize
    /\ flushTimer = FALSE
    /\ eventQueue = <<>>
    /\ isDestroyed = FALSE
    /\ InitNet
    /\ nextEvent = 1
    /\ toolKind = "none"
    /\ options = [apiKey |-> TRUE, trackResults |-> TRUE, meterEvent |-> FALSE,
                  batchSize |-> DefaultBatchSize, flushInterval |-> 0,
                  enabled |-> TRUE, priced |-> TRUE]
    /\ registered = "none"
    /\ analyticsEnabled = TRUE
    /\ InitInvocations
    /\ stripe = NoStripe

\* userInfo = options.getUserInfo() (register-analytics-tool.ts lines 103-110)
GetUserInfo ==
    /\ userInfo = NoUserInfo
    /\ userInfo' = extractUserInfo(props)
    /\ UNCHANGED <<clientVars, netVars, nextEvent, invVars, stripe, toolKind,
                   options, registered, analyticsEnabled, props, sanIn, sanOut,
                   server, agentCall>>

NextUser == GetUserInfo

SpecUser == InitUser /\ [][NextUser]_vars

\* new AnalyticsClient(config)
InitClient ==
    /\ apiKey \in BOOLEAN
    /\ \E cfg \in ConfigBatchSizes : batchSize = constructorBatchSize(cfg)
    /\ \E iv \in ConfigFlushIntervals : flushTimer = constructorFlushTimer(iv)
    /\ eventQueue = <<>>
    /\ isDestroyed = FALSE
    /\ InitNet
    /\ nextEvent = 1
    /\ toolKind = "none"
    /\ options = [apiKey |-> apiKey, trackResults |-> TRUE, meterEvent |-> FALSE,
                  batchSize |-> batchSize, flushInterval |-> 0,
                  enabled |-> TRUE, priced |-> TRUE]
    /\ registered = "none"
    /\ analyticsEnabled = FALSE
    /\ props = JNull
    /\ userInfo = NoUserInfo
    /\ sanIn = NoSanitizeInput
    /\ sanOut = <<>>
    /\ server = NoServer
    /\ agentCall = [outcome |-> "none", unhandledRejection |-> FALSE]
    /\ InitInvocations
    /\ stripe = NoStripe

\* a caller queues a new event
QueueEvent ==
    /\ nextEvent <= MaxEvents
    /\ Len(sendCalls) < MaxSendCalls
    /\ nextEvent' = nextEvent + 1
    /\ queueEvent(nextEvent)
    /\ UNCHANGED <<apiKey, batchSize, flushTimer, isDestroyed, wrapperVars>>

\* the interval callback: flush when the queue is not empty and the client is
\* not destroyed
TimerTick ==
    /\ flushTimer
    /\ Len(eventQueue) > 0 /\ ~isDestroyed
    /\ Len(sendCalls) < MaxSendCalls
    /\ flush(eventQueue, isDestroyed)
    /\ UNCHANGED <<apiKey, batchSize, flushTimer, isDestroyed, accepted, nextEvent,
                   wrapperVars>>

\* a caller calls flush()
Flush ==
    /\ Len(sendCalls) < MaxSendCalls
    /\ flush(eventQueue, isDestroyed)
    /\ UNCHANGED <<apiKey, batchSize, flushTimer, isDestroyed, accepted, nextEvent,
                   wrapperVars>>

\* the request of an in-flight batch settles
SendSettles ==
    \E b \in inflight, outcome \in SendOutcomes :
        /\ sendSettles(b, outcome)
        /\ UNCHANGED <<apiKey, batchSize, flushTimer, isDestroyed, nextEvent,
                       wrapperVars>>

\* a caller calls destroy()
Destroy ==
    /\ destroy
    /\ UNCHANGED <<apiKey, batchSize, nextEvent, wrapperVars>>

NextClient == QueueEvent \/ TimerTick \/ Flush \/ SendSettles \/ Destroy

SpecClient == InitClient /\ [][NextClient]_vars

\* the client with its interval timer: setInterval keeps calling the callback
\* for as long as the handle is set (constructor, lines 27-33), so a tick
\* that stays possible happens
SpecClientLive == InitClient /\ [][NextClient]_vars /\ WF_vars(TimerTick)

----------------------------------------------------------------------------
\* Spec: one registered tool and its invocations

\* the wrapper registered whether or not there is an API key
registerAnalyticsToolAlwaysWraps(opts) == "wrappedCallback"

\* registerAnalyticsTool, lines 50-54 and 207: without an API key the original
\* callback itself is registered, with one the wrapper
registerAnalyticsTool(opts) ==
    IF ~opts.apiKey THEN "originalCallback" ELSE "wrappedCallback"

\* the gate registered without a look at the checkout template
registerAnalyticsPaidToolUnchecked(opts) == "callback"

\* registerAnalyticsPaidTool, lines 85-88 and 418: a checkout template without
\* a priced line item throws before mcpServer.tool is reached; otherwise the
\* gate is registered, whether or not there is an API key
registerAnalyticsPaidTool(opts) ==
    IF ~opts.priced THEN "throws" ELSE "callback"

\* AnalyticsPaidMcpAgent.analyticsPaidTool (stripe/AnalyticsPaidMcpAgent.ts):
\* the method calls registerAnalyticsPaidTool, an async function, and neither
\* awaits nor returns its promise, so it returns undefined to its caller
\* whatever becomes of the registration
analyticsPaidTool(opts) ==
    [outcome |-> "returned",
     unhandledRejection |-> registerAnalyticsPaidTool(opts) = "throws"]

\* the options registrations are made with
\* (enabled is options.enabled !== false; priced is whether
\* options.checkout.line_items has an item with a price)
OptionsSet ==
    [apiKey : BOOLEAN, trackResults : BOOLEAN, meterEvent : BOOLEAN,
     batchSize : {2}, flushInterval : {DefaultFlushInterval},
     enabled : BOOLEAN, priced : BOOLEAN]

\* the state after registerAnalyticsTool or registerAnalyticsPaidTool returned
Init ==
    /\ toolKind \in {"free", "paid"}
    /\ options \in OptionsSet
    /\ toolKind = "free" => ~options.meterEvent
    /\ ~options.apiKey => options.trackResults
    /\ ~options.enabled =>
           options.apiKey /\ options.trackResults /\ ~options.meterEvent
    /\ ~options.priced =>
           /\ toolKind = "paid" /\ options.enabled
           /\ options.trackResults /\ ~options.meterEvent
    /\ registered = IF toolKind = "free" THEN registerAnalyticsTool(options)
                    ELSE registerAnalyticsPaidTool(options)
    /\ analyticsEnabled = options.apiKey
    /\ props = JNull
    /\ userInfo = NoUserInfo
    /\ sanIn = NoSanitizeInput
    /\ sanOut = <<>>
    /\ server = NoServer
    /\ agentCall = IF toolKind = "paid" THEN analyticsPaidTool(options)
                   ELSE [outcome |-> "none", unhandledRejection |-> FALSE]
    /\ apiKey = options.apiKey
    /\ batchSize = constructorBatchSize(options.batchSize)
    /\ flushTimer = (options.apiKey /\ constructorFlushTimer(options.flushInterval))
    /\ eventQueue = <<>>
    /\ isDestroyed = FALSE
    /\ InitNet
    /\ nextEvent = 1
    /\ InitInvocations
    /\ IF toolKind = "paid"
       THEN \E p \in PlatformStates :
                stripe = [NoStripe EXCEPT !.customers = p.customers,
                                          !.sessions = p.sessions,
                                          !.subscriptions = p.subscriptions]
       ELSE stripe = NoStripe

\* the invocation hands an event to analyticsClient.queueEvent
Emit(i, event) ==
    /\ queueEvent(event)
    /\ queued' = [queued EXCEPT ![i] = Append(@, event)]
NoEmit == UNCHANGED <<eventQueue, netVars, queued>>

\* the invocation returns or throws
Finish(i, kind, value) ==
    /\ pc' = [pc EXCEPT ![i] = "done"]
    /\ completion' = [completion EXCEPT ![i] = [kind |-> kind, value |-> value]]

\* register-analytics-tool.ts line 128: originalCallback(argsData, extra)
wrappedCallbackCall(args, extra) == [args |-> args, extra |-> extra]

\* the sanitized result returned in place of the result
wrappedCallbackReturnSanitized(result) == sanitizeResult(result)
\* register-analytics-tool.ts line 168: return result
wrappedCallbackReturn(result) == result

\* the paid callback called with the sanitized copy of the arguments
paidCallbackCallSanitized(args, extra) ==
    [args |-> sanitizeParameters(IF Falsy(args) THEN JObj(<<>>) ELSE args),
     extra |-> extra]
\* register-analytics-paid-tool.ts line 320: paidCallback(args, extra)
paidCallbackCall(args, extra) == [args |-> args, extra |-> extra]

\* register-analytics-paid-tool.ts line 365: return result
paidCallbackReturn(result) == result

\* the frames with what the original callback of invocation i did recorded
Settled(i, kind, value) ==
    [frame EXCEPT ![i].original = [kind |-> kind, value |-> value]]

\* a wrapper that awaits the flush of its event before it returns
freeReturnAwaitsFlush(i, result) ==
    /\ IF analyticsEnabled
       THEN /\ Emit(i, completedEvent(i, frame[i].args, result))
            /\ pc' = [pc EXCEPT ![i] = "flush"]
            /\ UNCHANGED completion
       ELSE /\ NoEmit
            /\ Finish(i, "returned", wrappedCallbackReturn(result))
    /\ frame' = Settled(i, "returned", result)

\* register-analytics-tool.ts lines 129-168: the callback returned
freeReturn(i, result) ==
    /\ IF analyticsEnabled
       THEN Emit(i, completedEvent(i, frame[i].args, result))
       ELSE NoEmit
    /\ Finish(i, "returned", wrappedCallbackReturn(result))
    /\ frame' = Settled(i, "returned", result)

\* register-analytics-tool.ts lines 169-203: the callback threw; reading
\* error.constructor of null or undefined throws out of the catch block
freeThrow(i, error) ==
    /\ IF analyticsEnabled /\ throwsOnPropertyRead(error)
       THEN NoEmit /\ Finish(i, "thrown", PropertyReadTypeError)
       ELSE /\ IF analyticsEnabled
               THEN Emit(i, failedEvent(i, frame[i].args, error))
               ELSE NoEmit
            /\ Finish(i, "thrown", error)
    /\ frame' = Settled(i, "thrown", error)

\* a success path that builds and queues its event without a look at whether
\* analytics is enabled
paidReturnAlwaysTracks(i, result) ==
    /\ Emit(i, paymentCompletedEvent(i, frame[i].args, result,
                                     frame[i].customerId,
                                     frame[i].paymentSession))
    /\ Finish(i, "returned", paidCallbackReturn(result))
    /\ frame' = Settled(i, "returned", result)

\* register-analytics-paid-tool.ts lines 321-365: the callback returned
paidReturn(i, result) ==
    /\ IF analyticsEnabled
       THEN Emit(i, paymentCompletedEvent(i, frame[i].args, result,
                                          frame[i].customerId,
                                          frame[i].paymentSession))
       ELSE NoEmit
    /\ Finish(i, "returned", paidCallbackReturn(result))
    /\ frame' = Settled(i, "returned", result)

\* register-analytics-paid-tool.ts lines 367-381: the catch block, up to the
\* call of getCurrentCustomerID made when analytics is enabled; fr is the
\* frames when the error is caught
enterCatchWith(i, error, fr) ==
    /\ NoEmit
    /\ IF analyticsEnabled
       THEN /\ pc' = [pc EXCEPT ![i] = "catch.customers.list"]
            /\ frame' = [fr EXCEPT ![i].error = error]
            /\ UNCHANGED completion
       ELSE /\ Finish(i, "thrown", error)
            /\ frame' = fr
enterCatch(i, error) == enterCatchWith(i, error, frame)

\* a catch block that answers with an error response where it should rethrow
finishCatchReturnsErrorResult(i, errorCustomerId) ==
    /\ Emit(i, paymentFailedEvent(i, frame[i].args, frame[i].error,
                                  errorCustomerId))
    /\ Finish(i, "returned", checkoutErrorResult(frame[i].error))
    /\ UNCHANGED frame

\* register-analytics-paid-tool.ts lines 383-413: the rest of the catch block
finishCatch(i, errorCustomerId) ==
    /\ IF throwsOnPropertyRead(frame[i].error)
       THEN NoEmit /\ Finish(i, "thrown", PropertyReadTypeError)
       ELSE /\ Emit(i, paymentFailedEvent(i, frame[i].args, frame[i].error,
                                          errorCustomerId))
            /\ Finish(i, "thrown", frame[i].error)
    /\ UNCHANGED frame

\* getCurrentCustomerID returned customerId: in the try block the entitlement
\* check starts, in the catch block the event is built
customerResolved(i, customerId) ==
    IF pc[i] \in {"catch.customers.list", "catch.customers.create"}
    THEN finishCatch(i, customerId)
    ELSE /\ pc' = [pc EXCEPT ![i] = "sessions.list"]
         /\ frame' = [frame EXCEPT ![i].customerId = customerId]
         /\ NoEmit
         /\ UNCHANGED completion

\* getCurrentCustomerID threw: in the try block the catch block is entered,
\* in the catch block the error is swallowed and the customer id stays null
customerFailed(i, error) ==
    IF pc[i] \in {"catch.customers.list", "catch.customers.create"}
    THEN finishCatch(i, JNull)
    ELSE enterCatch(i, error)

\* an entitlement check after which a usage-based tool goes on without
\* recording the usage
afterEntitlementCheckSkipsMetering(i, paidSession, paid) ==
    /\ UNCHANGED completion
    /\ IF ~paid
       THEN /\ IF analyticsEnabled
               THEN Emit(i, paymentRequiredEvent(i, frame[i].args,
                                                 frame[i].customerId))
               ELSE NoEmit
            /\ pc' = [pc EXCEPT ![i] = "checkout.sessions.create"]
            /\ frame' = [frame EXCEPT ![i].paidSession = paidSession,
                                      ![i].paid = "no"]
       ELSE /\ NoEmit
            /\ pc' = [pc EXCEPT ![i] = "getPaymentSessionData"]
            /\ frame' = [frame EXCEPT ![i].paidSession = paidSession,
                                      ![i].paid = "yes"]

\* an entitlement check after which the entitled branch goes straight to the
\* original callback's result, the payment-session lookup left for later
afterEntitlementCheckSkipsLookup(i, paidSession, paid) ==
    /\ UNCHANGED completion
    /\ IF ~paid
       THEN /\ IF analyticsEnabled
               THEN Emit(i, paymentRequiredEvent(i, frame[i].args,
                                                 frame[i].customerId))
               ELSE NoEmit
            /\ pc' = [pc EXCEPT ![i] = "checkout.sessions.create"]
            /\ frame' = [frame EXCEPT ![i].paidSession = paidSession,
                                      ![i].paid = "no"]
       ELSE /\ NoEmit
            /\ pc' = [pc EXCEPT ![i] = IF paymentType = JStr("usageBased", 10)
                                       THEN "meterEvents.create"
                                       ELSE "originalCallback"]
            /\ frame' = [frame EXCEPT ![i].paidSession = paidSession,
                                      ![i].paid = "yes"]

\* register-analytics-paid-tool.ts lines 264-308: what follows the answer of
\* isToolPaidFor
afterEntitlementCheck(i, paidSession, paid) ==
    /\ UNCHANGED completion
    /\ IF ~paid
       THEN /\ IF analyticsEnabled
               THEN Emit(i, paymentRequiredEvent(i, frame[i].args,
                                                 frame[i].customerId))
               ELSE NoEmit
            /\ pc' = [pc EXCEPT ![i] = "checkout.sessions.create"]
            /\ frame' = [frame EXCEPT ![i].paidSession = paidSession,
                                      ![i].paid = "no"]
       ELSE /\ NoEmit
            /\ pc' = [pc EXCEPT ![i] = IF paymentType = JStr("usageBased", 10)
                                       THEN "meterEvents.create"
                                       ELSE "getPaymentSessionData"]
            /\ frame' = [frame EXCEPT ![i].paidSession = paidSession,
                                      ![i].paid = "yes"]

\* the tool-serving framework invokes the registered callback
Invoke ==
    \E i \in Invocations, args \in ArgsSet, extra \in ExtraSet :
        /\ registered # "throws"
        /\ pc[i] = "idle"
        /\ \A j \in 1..(i - 1) : pc[j] # "idle"
        /\ frame' = [frame EXCEPT ![i].args = args, ![i].extra = extra]
        /\ IF registered = "callback"
           THEN \* getCurrentCustomerID: stripe.customers.list is issued
                /\ pc' = [pc EXCEPT ![i] = "customers.list"]
                /\ UNCHANGED calls
           ELSE /\ pc' = [pc EXCEPT ![i] = "originalCallback"]
                /\ calls' = [calls EXCEPT ![i] =
                                Append(@, IF registered = "wrappedCallback"
                                          THEN wrappedCallbackCall(args, extra)
                                          ELSE [args |-> args, extra |-> extra])]
        /\ UNCHANGED <<completion, queued, stripe, regVars, clientVars, netVars,
                       nextEvent>>

\* the original callback returns a result
CallbackReturns ==
    \E i \in Invocations, result \in ResultSet :
        /\ pc[i] = "originalCallback"
        /\ IF registered = "originalCallback"
           THEN /\ Finish(i, "returned", result)
                /\ NoEmit
                /\ frame' = Settled(i, "returned", result)
           ELSE IF registered = "wrappedCallback"
           THEN freeReturn(i, result)
           ELSE paidReturn(i, result)
        /\ UNCHANGED <<calls, stripe, regVars, apiKey, batchSize, flushTimer,
                       isDestroyed, nextEvent>>

\* the original callback throws (or its promise rejects)
CallbackThrows ==
    \E i \in Invocations, error \in ThrownSet :
        /\ pc[i] = "originalCallback"
        /\ IF registered = "originalCallback"
           THEN /\ Finish(i, "thrown", error)
                /\ NoEmit
                /\ frame' = Settled(i, "thrown", error)
           ELSE IF registered = "wrappedCallback"
           THEN freeThrow(i, error)
           ELSE enterCatchWith(i, error, Settled(i, "thrown", error))
        /\ UNCHANGED <<calls, stripe, regVars, apiKey, batchSize, flushTimer,
                       isDestroyed, nextEvent>>

\* getCurrentCustomerID: stripe.customers.list settles
CustomersListSettles ==
    \E i \in Invocations, ok \in BOOLEAN :
        /\ pc[i] \in {"customers.list", "catch.customers.list"}
        /\ IF ok
           THEN IF findCustomer(stripe.customers) # JNull
                THEN customerResolved(i, findCustomer(stripe.customers))
                ELSE \* stripe.customers.create is issued
                     /\ pc' = [pc EXCEPT ![i] =
                                  IF pc[i] = "customers.list"
                                  THEN "customers.create"
                                  ELSE "catch.customers.create"]
                     /\ NoEmit
                     /\ UNCHANGED <<frame, completion>>
           ELSE customerFailed(i, StripeError("customers.list failed"))
        /\ UNCHANGED <<calls, stripe, regVars, apiKey, batchSize, flushTimer,
                       isDestroyed, nextEvent>>

\* getCurrentCustomerID: stripe.customers.create settles
CustomersCreateSettles ==
    \E i \in Invocations, ok \in BOOLEAN :
        /\ pc[i] \in {"customers.create", "catch.customers.create"}
        /\ Len(stripe.customers) < Len(CustomerIds)
        /\ IF ok
           THEN /\ stripe' = [stripe EXCEPT !.customers =
                                 Append(@, CustomerIds[Len(@) + 1])]
                /\ customerResolved(i, CustomerIds[Len(stripe.customers) + 1])
           ELSE /\ customerFailed(i, StripeError("customers.create failed"))
                /\ UNCHANGED stripe
        /\ UNCHANGED <<calls, regVars, apiKey, batchSize, flushTimer,
                       isDestroyed, nextEvent>>

\* isToolPaidFor: stripe.checkout.sessions.list settles
SessionsListSettles ==
    \E i \in Invocations, ok \in BOOLEAN :
        /\ pc[i] = "sessions.list"
        /\ IF ok
           THEN LET paidSession == getPaymentSessionData(stripe.sessions, toolName)
                IN IF needsSubscriptionLookup(paidSession)
                   THEN \* stripe.subscriptions.list is issued
                        /\ pc' = [pc EXCEPT ![i] = "subscriptions.list"]
                        /\ frame' = [frame EXCEPT ![i].paidSession = paidSession]
                        /\ NoEmit
                        /\ UNCHANGED completion
                   ELSE afterEntitlementCheck(i, paidSession,
                            isToolPaidFor(paidSession, FALSE, <<>>))
           ELSE enterCatch(i, StripeError("sessions.list failed"))
        /\ UNCHANGED <<calls, stripe, regVars, apiKey, batchSize, flushTimer,
                       isDestroyed, nextEvent>>

\* isToolPaidFor: stripe.subscriptions.list settles
SubscriptionsListSettles ==
    \E i \in Invocations, ok \in BOOLEAN :
        /\ pc[i] = "subscriptions.list"
        /\ IF ok
           THEN afterEntitlementCheck(i, frame[i].paidSession,
                    isToolPaidFor(frame[i].paidSession, TRUE,
                                  stripe.subscriptions))
           ELSE enterCatch(i, StripeError("subscriptions.list failed"))
        /\ UNCHANGED <<calls, stripe, regVars, apiKey, batchSize, flushTimer,
                       isDestroyed, nextEvent>>

\* session.url of a checkout session the platform creates
CheckoutUrl == JStr("https://checkout.stripe.com/c/pay", 33)

\* createCheckoutSession: stripe.checkout.sessions.create settles; both the
\* result and the error response are returned to the caller
CheckoutCreateSettles ==
    \E i \in Invocations, ok \in BOOLEAN :
        /\ pc[i] = "checkout.sessions.create"
        /\ IF ok
           THEN /\ stripe' = [stripe EXCEPT !.checkouts =
                                 Append(@, [by |-> i,
                                            customer |-> frame[i].customerId,
                                            toolName |-> toolName,
                                            url |-> CheckoutUrl])]
                /\ Finish(i, "returned",
                          paymentRequiredResult(paymentType, CheckoutUrl))
           ELSE /\ UNCHANGED stripe
                /\ Finish(i, "returned",
                          checkoutErrorResult(
                              StripeError("checkout.sessions.create failed")))
        /\ NoEmit
        /\ UNCHANGED <<frame, calls, regVars, apiKey, batchSize, flushTimer,
                       isDestroyed, nextEvent>>

\* recordUsage: stripe.billing.meterEvents.create settles
MeterEventSettles ==
    \E i \in Invocations, ok \in BOOLEAN :
        /\ pc[i] = "meterEvents.create"
        /\ IF ok
           THEN /\ stripe' = [stripe EXCEPT !.meterEvents =
                                 Append(@, [by |-> i,
                                            customer |-> frame[i].customerId])]
                /\ pc' = [pc EXCEPT ![i] = "getPaymentSessionData"]
                /\ NoEmit
                /\ UNCHANGED <<frame, completion>>
           ELSE /\ UNCHANGED stripe
                /\ enterCatch(i, StripeError("meterEvents.create failed"))
        /\ UNCHANGED <<calls, regVars, apiKey, batchSize, flushTimer,
                       isDestroyed, nextEvent>>

\* lines 311-320: the lookup of the payment session for the event settles (a
\* failure leaves it null), and the original callback is invoked
PaymentSessionLookupSettles ==
    \E i \in Invocations, ok \in BOOLEAN :
        /\ pc[i] = "getPaymentSessionData"
        /\ frame' = [frame EXCEPT ![i].paymentSession =
                        IF ok THEN getPaymentSessionData(stripe.sessions, toolName)
                        ELSE NoSession]
        /\ calls' = [calls EXCEPT ![i] =
                        Append(@, paidCallbackCall(frame[i].args,
                                                   frame[i].extra))]
        /\ pc' = [pc EXCEPT ![i] = "originalCallback"]
        /\ NoEmit
        /\ UNCHANGED <<completion, stripe, regVars, apiKey, batchSize,
                       flushTimer, isDestroyed, nextEvent>>

Next ==
    \/ Invoke
    \/ CallbackReturns
    \/ CallbackThrows
    \/ CustomersListSettles
    \/ CustomersCreateSettles
    \/ SessionsListSettles
    \/ SubscriptionsListSettles
    \/ CheckoutCreateSettles
    \/ MeterEventSettles
    \/ PaymentSessionLookupSettles
    \/ TimerTick
    \/ SendSettles

Spec == Init /\ [][Next]_vars

\* ---------------------------------------------------------------------
\* The sanitizers as the free wrapper applies them to the args of a call and
\* to the result of the callback: two calls of one tool with the same result
\* ---------------------------------------------------------------------

InitSanitize ==
    LET Str(text, len) == JStr(text, len)
        Secrets(k, q, pwd) ==
            JObj(<< [k |-> K_apiKey, v |-> k], [k |-> K_query, v |-> q],
                    [k |-> K_creditCard, v |-> Str("4111-1111", 9)],
                    [k |-> K_userPwd, v |-> pwd] >>)
        Cycle == JObj(<< [k |-> <<"s","e","l","f">>, v |-> JRef] >>)
        ArgsInputs ==
            ArgsSet \cup
            { JUndefined, Cycle,
              Secrets(Str("sk-test-other", 13), Str("query text", 1500),
                      Str("correct horse", 13)),
              Secrets(Str("sk-live", 1200), Str("q", 1000), Str("p", 1001)),
              Secrets(Str("sk-live", 7), Str("q", 1001), JNum(7)) }
        Numbers(n) == JArr([i \in 1..n |-> JNum(i)])
        imageItem ==
            JObj(<< [k |-> K_type, v |-> Str("image", 5)],
                    [k |-> K_data, v |-> Str("iVBORw0KGgo", 4096)],
                    [k |-> K_mimeType, v |-> Str("image/png", 9)] >>)
        ResultInputs ==
            ResultSet \cup
            { JNull, Cycle, Str("plain", 2500), Numbers(25),
              mcpResult(<< textItem(Str("chart", 5)), imageItem >>),
              mcpResult([i \in 1..21 |-> textItem(Str("row", 3))]),
              mcpResult(<< Cycle >>),
              JObj(<< [k |-> K_items, v |-> Numbers(21)],
                      [k |-> K_text, v |-> Str("body", 2500)] >>) }
    IN /\ sanIn \in [args : ArgsInputs \X ArgsInputs, result : ResultInputs]
       /\ sanOut = [n \in 1..2 |->
                       [pass |-> 0, called |-> JUndefined, params |-> JUndefined,
                        again |-> JUndefined, result |-> JUndefined,
                        returned |-> JUndefined]]
       /\ props = JNull
       /\ userInfo = NoUserInfo
       /\ server = NoServer
       /\ agentCall = [outcome |-> "none", unhandledRejection |-> FALSE]
       /\ apiKey = TRUE
       /\ batchSize = DefaultBatchSize
       /\ flushTimer = FALSE
       /\ eventQueue = <<>>
       /\ isDestroyed = FALSE
       /\ InitNet
       /\ nextEvent = 1
       /\ toolKind = "none"
       /\ options = [apiKey |-> TRUE, trackResults |-> TRUE,
                     meterEvent |-> FALSE, batchSize |-> DefaultBatchSize,
                     flushInterval |-> 0, enabled |-> TRUE, priced |-> TRUE]
       /\ registered = "none"
       /\ analyticsEnabled = TRUE
       /\ InitInvocations
       /\ stripe = NoStripe

\* register-analytics-tool.ts lines 124-168 for call n: the parameters are
\* sanitized, the callback is called and returns, its result is sanitized for
\* the event, and the wrapper returns
SanitizeCall ==
    \E n \in 1..2 :
        /\ sanOut[n].pass = 0
        /\ sanOut' = [sanOut EXCEPT ![n] =
               [pass |-> 1,
                called |-> wrappedCallbackCall(sanIn.args[n], JUndefined),
                params |-> sanitizeParameters(IF Falsy(sanIn.args[n])
                                              THEN JObj(<<>>)
                                              ELSE sanIn.args[n]),
                again |-> JUndefined,
                result |-> trackedResult(sanIn.result),
                returned |-> wrappedCallbackReturn(sanIn.result)]]
        /\ UNCHANGED <<clientVars, netVars, nextEvent, invVars, stripe,
                       toolKind, options, registered, analyticsEnabled, props,
                       userInfo, sanIn, server, agentCall>>

\* sanitizeParameters applied to its own output
SanitizeAgain ==
    \E n \in 1..2 :
        /\ sanOut[n].pass = 1
        /\ sanOut' = [sanOut EXCEPT ![n].pass = 2,
                                    ![n].again =
                                        sanitizeParameters(sanOut[n].params)]
        /\ UNCHANGED <<clientVars, netVars, nextEvent, invVars, stripe,
                       toolKind, options, registered, analyticsEnabled, props,
                       userInfo, sanIn, server, agentCall>>

NextSanitize == SanitizeCall \/ SanitizeAgain

SpecSanitize == InitSanitize /\ [][NextSanitize]_vars

----------------------------------------------------------------------------
\* Several tools registered on one server instance

\* the number of tools registered on the server
MaxTools == 2

\* one server instance, nothing registered yet, configured with one set of
\* analytics options that every registration is made with
InitServer ==
    /\ server = NoServer
    /\ options \in [apiKey : BOOLEAN, trackResults : {TRUE},
                    meterEvent : {FALSE}, batchSize : {2, 3},
                    flushInterval : ConfigFlushIntervals,
                    enabled : {TRUE}, priced : {TRUE}]
    /\ toolKind = "none"
    /\ registered = "none"
    /\ analyticsEnabled = options.apiKey
    /\ props = JNull
    /\ userInfo = NoUserInfo
    /\ sanIn = NoSanitizeInput
    /\ sanOut = <<>>
    /\ agentCall = [outcome |-> "none", unhandledRejection |-> FALSE]
    /\ apiKey = options.apiKey
    /\ batchSize = constructorBatchSize(options.batchSize)
    /\ flushTimer = FALSE
    /\ eventQueue = <<>>
    /\ isDestroyed = FALSE
    /\ InitNet
    /\ nextEvent = 1
    /\ InitInvocations
    /\ stripe = NoStripe

\* registerAnalyticsTool (register-analytics-tool.ts lines 50-75) and
\* registerAnalyticsPaidTool (register-analytics-paid-tool.ts lines 65-83):
\* with an API key the registration constructs a new AnalyticsClient of its
\* own, with its own eventQueue and, unless flushInterval is 0, its own
\* setInterval timer; the wrapped callback closes over that client. Without
\* an API key the tool has no client (client 0)
RegisterTool ==
    /\ Len(server.tools) < MaxTools
    /\ \E kind \in {"free", "paid"} :
          IF options.apiKey
          THEN server' =
                 [tools |-> Append(server.tools,
                                   [kind |-> kind,
                                    client |-> Len(server.clients) + 1]),
                  clients |-> Append(server.clients,
                      [batchSize |-> constructorBatchSize(options.batchSize),
                       flushTimer |->
                           constructorFlushTimer(options.flushInterval),
                       eventQueue |-> <<>>,
                       sent |-> <<>>])]
          ELSE server' =
                 [server EXCEPT !.tools =
                      Append(@, [kind |-> kind, client |-> 0])]
    /\ UNCHANGED <<clientVars, netVars, nextEvent, invVars, stripe, toolKind,
                   options, registered, analyticsEnabled, props, userInfo,
                   sanIn, sanOut, agentCall>>

\* an invocation of tool t ends and its wrapper hands one event to
\* analyticsClient.queueEvent of the client the tool was registered with
\* (AnalyticsClient.queueEvent, lines 98-105: push, then flush when the
\* queue has reached batchSize; flush, line 116, splices batchSize events off
\* the queue and sends them as one batch). A tool without a client runs the
\* original callback only and changes nothing here
ToolInvoked ==
    /\ nextEvent <= MaxEvents
    /\ \E t \in 1..Len(server.tools) :
          LET c == server.tools[t].client
          IN /\ c # 0
             /\ LET cl == server.clients[c]
                    q == Append(cl.eventQueue,
                                [tool |-> t, id |-> nextEvent])
                    n == spliceCount(Len(q), cl.batchSize)
                IN server' =
                     [server EXCEPT !.clients[c] =
                        IF Len(q) >= cl.batchSize
                        THEN [cl EXCEPT !.eventQueue =
                                           SubSeq(q, n + 1, Len(q)),
                                        !.sent = Append(@, SubSeq(q, 1, n))]
                        ELSE [cl EXCEPT !.eventQueue = q]]
    /\ nextEvent' = nextEvent + 1
    /\ UNCHANGED <<clientVars, netVars, invVars, stripe, toolKind, options,
                   registered, analyticsEnabled, props, userInfo, sanIn,
                   sanOut, agentCall>>

\* the setInterval callback of one client (constructor, lines 27-33): a
\* non-empty queue is flushed
ClientTimerTick ==
    /\ \E c \in 1..Len(server.clients) :
          LET cl == server.clients[c]
              n == spliceCount(Len(cl.eventQueue), cl.batchSize)
          IN /\ cl.flushTimer
             /\ Len(cl.eventQueue) > 0
             /\ server' =
                  [server EXCEPT !.clients[c] =
                     [cl EXCEPT !.eventQueue =
                                    SubSeq(cl.eventQueue, n + 1,
                                           Len(cl.eventQueue)),
                                !.sent = Append(@, SubSeq(cl.eventQueue,
                                                          1, n))]]
    /\ UNCHANGED <<clientVars, netVars, nextEvent, invVars, stripe, toolKind,
                   options, registered, analyticsEnabled, props, userInfo,
                   sanIn, sanOut, agentCall>>

NextServer == RegisterTool \/ ToolInvoked \/ ClientTimerTick

SpecServer == InitServer /\ [][NextServer]_vars

----------------------------------------------------------------------------
\* Properties of the event delivery client (checked under SpecClient)

\* the batches (by position in sendCalls) that hold event e
BatchesOf(e) == {i \in DOMAIN sendCalls : e \in Range(sendCalls[i])}

\* C8: destroy() performs one final flush of whatever remains: once destroy()
\* has run (here on a client with an API key and a batch size of at least 1),
\* nothing is left in the queue and every event the queue had accepted has
\* been handed to a send attempt.
C8_DestroyFlushesRemaining ==
    (isDestroyed /\ apiKey /\ batchSize >= 1) =>
        /\ eventQueue = <<>>
        /\ \A e \in accepted : BatchesOf(e) # {}

\* C9: for any configured batch size, a flush of a non-destroyed, non-empty
\* queue removes exactly min(queueLength, batchSize) events from the front,
\* in FIFO order, and hands exactly those events to the send.
C9_FlushRemovesMinOfQueueAndBatch ==
    Len(lastSplice.before) > 0 =>
        LET n == Min(Len(lastSplice.before), batchSize)
        IN /\ Len(lastSplice.removed) = n
           /\ lastSplice.removed = SubSeq(lastSplice.before, 1, n)
           /\ sendCalls[Len(sendCalls)] = lastSplice.removed

\* C10: when the send of a flushed batch fails for any reason, flush() still
\* resolves, and the events of the failed batch are gone for good: they are
\* not in the queue, not in flight, not delivered, and in no second batch.
C10_FailedBatchIsDiscarded ==
    /\ lastFlush # "rejected"
    /\ \A e \in discarded :
        /\ e \notin Range(eventQueue)
        /\ \A b \in inflight : e \notin Range(b)
        /\ e \notin delivered
        /\ Cardinality(BatchesOf(e)) = 1

\* C10 witness: a batch failed after its request was issued, the flush
\* resolved, and the client went on to send a later batch while events are
\* queued again
C10_Witness ==
    /\ apiKey /\ ~isDestroyed
    /\ lastFlush = "resolved"
    /\ 1 \in discarded
    /\ Len(sendCalls) >= 2
    /\ eventQueue # <<>>

\* C11: no request carries more than 25 events: a batch whose request was
\* issued has between 1 and 25 events, and every batch that flush hands to
\* sendEvents has between 1 and 25 events.
C11_BatchesHoldOneTo25Events ==
    /\ \A b \in inflight : Len(b) >= 1 /\ Len(b) <= MaxBatchSize
    /\ \A k \in DOMAIN sendCalls :
           Len(sendCalls[k]) >= 1 /\ Len(sendCalls[k]) <= MaxBatchSize

\* the positions of the queue that hold event e
QueuePositionsOf(e) == {k \in DOMAIN eventQueue : eventQueue[k] = e}

\* C12: under any interleaving of pushes, batch-triggered flushes, timer
\* flushes and in-flight sends on one client, no event is in two send batches
\* or twice in one, and an accepted event is either once in the queue or in
\* exactly one batch handed to sendEvents, never both and never neither: an
\* event pushed while a send is in flight stays in the queue until a later
\* flush claims it.
C12_NoEventLostOrDuplicated ==
    /\ \A e \in accepted :
        /\ Cardinality(BatchesOf(e)) + Cardinality(QueuePositionsOf(e)) = 1
        /\ \A k \in BatchesOf(e) :
               Cardinality({j \in DOMAIN sendCalls[k] : sendCalls[k][j] = e}) = 1
    /\ Range(eventQueue) \subseteq accepted
    /\ \A k \in DOMAIN sendCalls : Range(sendCalls[k]) \subseteq accepted
    /\ \A b \in inflight : \E k \in DOMAIN sendCalls : sendCalls[k] = b

\* C12 witness: two batches are in flight at once, the later one holding an
\* event that was pushed while the first was in flight, and another event
\* pushed since waits in the queue
C12_Witness ==
    /\ Cardinality(inflight) >= 2
    /\ Len(sendCalls) >= 2
    /\ sendCalls[1] \in inflight /\ sendCalls[2] \in inflight
    /\ sendCalls[1] # <<>> /\ sendCalls[2] # <<>>
    /\ eventQueue # <<>>
    /\ flushTimer

----------------------------------------------------------------------------
\* Properties of the wrappers (checked under Spec)

Done(i) == pc[i] = "done"
Returned(value) == [kind |-> "returned", value |-> value]
Thrown(value) == [kind |-> "thrown", value |-> value]
\* the (args, extra) invocation i received, as one call of the original
Received(i) == [args |-> frame[i].args, extra |-> frame[i].extra]

\* C1: a free tool registered with an API key: the wrapper calls the original
\* callback exactly once, with the very (args, extra) it received, and when
\* the callback returns, the invocation returns that same value, whatever
\* result tracking and the sends do.
C1_FreeWrapperCallsOnceAndReturnsResult ==
    \A i \in Invocations :
        (registered = "wrappedCallback" /\ pc[i] # "idle") =>
            /\ calls[i] = <<Received(i)>>
            /\ (Done(i) /\ frame[i].original.kind = "returned") =>
                   completion[i] = Returned(frame[i].original.value)

\* C1 witness: with result tracking on, a callback returned a result that
\* sanitizeResult changes, for args that sanitizeParameters changes, and the
\* send of the invocation's event failed
C1_Witness ==
    \E i \in Invocations :
        /\ registered = "wrappedCallback" /\ options.trackResults
        /\ Done(i) /\ frame[i].original.kind = "returned"
        /\ sanitizeResult(frame[i].original.value) # frame[i].original.value
        /\ sanitizeParameters(frame[i].args) # frame[i].args
        /\ queued[i] # <<>> /\ queued[i][1] \in discarded

\* C2: whatever the original callback of a free tool throws, an Error or a
\* non-Error value such as null, the wrapped invocation rejects with that
\* identical value.
C2_FreeWrapperRethrowsThrownValue ==
    \A i \in Invocations :
        (registered = "wrappedCallback" /\ Done(i)
            /\ frame[i].original.kind = "thrown") =>
            completion[i] = Thrown(frame[i].original.value)

\* C3: registerAnalyticsTool without an API key registers the original
\* callback itself: every invocation ends exactly as the original callback
\* ended, called once with the arguments received, and no event is queued.
C3_NoApiKeyRegistersOriginal ==
    (toolKind = "free" /\ ~options.apiKey) =>
        /\ registered = "originalCallback"
        /\ accepted = {} /\ eventQueue = <<>> /\ sendCalls = <<>>
        /\ \A i \in Invocations :
            /\ queued[i] = <<>>
            /\ pc[i] # "idle" => calls[i] = <<Received(i)>>
            /\ Done(i) => completion[i] = frame[i].original

\* C3 witness: without an API key, one invocation returned the callback's
\* result and another threw the callback's null
C3_Witness ==
    /\ toolKind = "free" /\ ~options.apiKey
    /\ \E i, j \in Invocations :
        /\ Done(i) /\ completion[i].kind = "returned"
        /\ Done(j) /\ completion[j] = Thrown(JNull)

\* C4: with telemetry enabled, every invocation attempt of a wrapped tool,
\* free or paid, hands exactly one event to queueEvent on every path: never
\* two, and never zero once the attempt is over.
C4_ExactlyOneEventPerAttempt ==
    \A i \in Invocations :
        analyticsEnabled =>
            /\ Len(queued[i]) <= 1
            /\ Done(i) => Len(queued[i]) = 1

\* the checkout session created for invocation i, if any
CheckoutsOf(i) == {k \in DOMAIN stripe.checkouts : stripe.checkouts[k].by = i}
\* the object encoded in the text of the first content item of a response
PayloadOf(response) ==
    Get(Get(response, K_content).items[1], K_text).of

\* C5: a paid-tool invocation for a customer who is not entitled never
\* invokes the original callback and, when checkout creation succeeds, returns
\* a payload whose text is JSON with status 'payment_required' and the
\* checkout URL, the payment type and the payment reason.
C5_NotEntitledNeverRunsCallback ==
    \A i \in Invocations :
        (toolKind = "paid" /\ frame[i].paid = "no") =>
            /\ calls[i] = <<>>
            /\ frame[i].original = NotSettled
            /\ \A k \in CheckoutsOf(i) :
                /\ Done(i) /\ completion[i].kind = "returned"
                /\ Get(PayloadOf(completion[i].value), K_status)
                       = JStr("payment_required", 16)
                /\ LET data == Get(PayloadOf(completion[i].value), K_data)
                   IN /\ Get(data, K_checkoutUrl) = stripe.checkouts[k].url
                      /\ Get(data, K_paymentType) = paymentType
                      /\ Get(data, K_paymentReason) = paymentReason

\* C5 witness: an invocation found its customer not entitled, the checkout
\* session was created and the invocation is over
C5_Witness ==
    \E i \in Invocations :
        /\ toolKind = "paid" /\ frame[i].paid = "no" /\ Done(i)
        /\ CheckoutsOf(i) # {}
        /\ analyticsEnabled /\ options.meterEvent

\* C6: a paid-tool invocation for an entitled customer invokes the original
\* callback exactly once, with the original (args, extra), and returns the
\* callback's result unmodified.
C6_EntitledRunsCallbackOnce ==
    \A i \in Invocations :
        (toolKind = "paid" /\ frame[i].paid = "yes" /\ Done(i)) =>
            /\ calls[i] = <<Received(i)>>
            /\ frame[i].original.kind = "returned" =>
                   completion[i] = Returned(frame[i].original.value)

\* the metered-usage call of invocation i failed
MeterFailed(i) ==
    completion[i] = Thrown(StripeError("meterEvents.create failed"))

\* C6 as amended: for an entitled customer the original callback is invoked
\* at most once, and once the invocation is over: if the recording of the
\* metered usage failed, the callback was not invoked and the metering error
\* is thrown; otherwise the callback was invoked exactly once with the
\* original (args, extra), and a result it returned is returned unmodified.
C6_EntitledRunsCallbackOnceUnlessMeterFails ==
    \A i \in Invocations :
        (toolKind = "paid" /\ frame[i].paid = "yes") =>
            /\ Len(calls[i]) <= 1
            /\ \A k \in DOMAIN calls[i] : calls[i][k] = Received(i)
            /\ Done(i) =>
                IF MeterFailed(i)
                THEN calls[i] = <<>> /\ options.meterEvent
                ELSE /\ calls[i] = <<Received(i)>>
                     /\ frame[i].original.kind = "returned" =>
                            completion[i] = Returned(frame[i].original.value)

\* C6 witness: on a usage-based tool with result tracking, an entitled
\* invocation ran the callback on args and a result the sanitizers change,
\* and returned
C6_Witness ==
    \E i \in Invocations :
        /\ toolKind = "paid" /\ frame[i].paid = "yes" /\ Done(i)
        /\ options.meterEvent /\ analyticsEnabled /\ options.trackResults
        /\ completion[i].kind = "returned"
        /\ sanitizeResult(frame[i].original.value) # frame[i].original.value
        /\ sanitizeParameters(frame[i].args) # frame[i].args

\* the customer has a checkout session of the tool whose status is 'paid'
HasPaidSession ==
    \E k \in DOMAIN stripe.sessions :
        /\ stripe.sessions[k].toolName = toolName
        /\ stripe.sessions[k].payment_status = JStr("paid", 4)
\* the customer has an active subscription with an item of the tool's price
HasActiveSubscriptionItem ==
    \E k \in DOMAIN stripe.subscriptions :
        /\ stripe.subscriptions[k].status = "active"
        /\ priceId \in Range(stripe.subscriptions[k].prices)

SendSettlesStep ==
    inflight' # inflight /\ inflight' \subseteq inflight

\* the promises an invocation awaits: the original callback's and those of
\* the calls of the payment platform; each is settled by an action whose
\* guard reads nothing of the client
AwaitedPromises ==
    {"originalCallback", "customers.list", "customers.create",
     "catch.customers.list", "catch.customers.create", "sessions.list",
     "subscriptions.list", "checkout.sessions.create", "meterEvents.create",
     "getPaymentSessionData"}

\* C13: the return or rethrow of a wrapped invocation never waits on the
\* transmission of telemetry: whatever the state of the client's sends (none
\* issued, in flight, failed), an invocation that started and is not over
\* awaits only the original callback or a call of the payment platform, never
\* a flush or a send; and the settling of a send, failed or not, changes
\* neither where an invocation is nor what it returned or threw.
C13_InvocationNeverWaitsOnSend ==
    [][/\ \A i \in Invocations :
            pc'[i] \notin {"idle", "done"} => pc'[i] \in AwaitedPromises
       /\ SendSettlesStep => UNCHANGED <<pc, completion>>]_vars

\* C13 witness: an invocation has returned while the batch with its own event,
\* sent by the flush its queueEvent triggered, is still in flight
C13_Witness ==
    \E i \in Invocations :
        /\ Done(i) /\ registered = "wrappedCallback"
        /\ completion[i].kind = "returned"
        /\ queued[i] # <<>>
        /\ \E b \in inflight : b[Len(b)] = queued[i][1]

\* the event types among the events invocation i handed to queueEvent
EventTypesOf(i) == {queued[i][k].eventType : k \in DOMAIN queued[i]}
\* the error invocation i caught, or threw without telemetry
CaughtError(i) ==
    IF frame[i].error # NoError THEN frame[i].error
    ELSE IF completion[i].kind = "thrown" THEN completion[i].value
    ELSE NoError
\* customer resolution failed in the try block of invocation i
CustomerResolutionFailed(i) ==
    CaughtError(i) \in {StripeError("customers.list failed"),
                        StripeError("customers.create failed")}

\* C14: if customer resolution fails in a paid-tool invocation, the original
\* callback is not invoked, no payment_required event is emitted, the
\* invocation rejects with the gateway's original error and, telemetry being
\* enabled, one payment_failed event with the error's message and the
\* sanitized parameters is queued.
C14_CustomerResolutionFailure ==
    \A i \in Invocations :
        (toolKind = "paid" /\ CustomerResolutionFailed(i)) =>
            /\ calls[i] = <<>>
            /\ "mcp.tool.payment_required" \notin EventTypesOf(i)
            /\ Done(i) =>
                /\ completion[i] = Thrown(CaughtError(i))
                /\ analyticsEnabled =>
                    /\ Len(queued[i]) = 1
                    /\ queued[i][1].eventType = "mcp.tool.payment_failed"
                    /\ queued[i][1].errorMessage = CaughtError(i).message
                    /\ queued[i][1].parameters = sanitizeParameters(frame[i].args)
                    /\ queued[i][1].success = FALSE

\* C14 witness: with telemetry enabled, stripe.customers.create failed for an
\* invocation whose args hold secrets, and the invocation is over
C14_Witness ==
    \E i \in Invocations :
        /\ toolKind = "paid" /\ analyticsEnabled /\ Done(i)
        /\ CaughtError(i) = StripeError("customers.create failed")
        /\ sanitizeParameters(frame[i].args) # frame[i].args
        /\ queued[i] # <<>>

\* checkout creation failed for invocation i in the not-entitled branch
CheckoutCreationFailed(i) ==
    /\ toolKind = "paid" /\ frame[i].paid = "no"
    /\ Done(i) /\ CheckoutsOf(i) = {}

\* C15: in the not-entitled branch, if the creation of the checkout session
\* fails, the invocation does not throw: it returns an error payload (status
\* 'error', isError true), does not invoke the original callback, and emits
\* no payment_failed event besides the payment_required event.
C15_CheckoutFailureReturnsErrorPayload ==
    \A i \in Invocations :
        CheckoutCreationFailed(i) =>
            /\ completion[i].kind = "returned"
            /\ Get(PayloadOf(completion[i].value), K_status) = JStr("error", 5)
            /\ Get(completion[i].value, K_isError) = JBool(TRUE)
            /\ calls[i] = <<>>
            /\ "mcp.tool.payment_failed" \notin EventTypesOf(i)
            /\ analyticsEnabled =>
                   EventTypesOf(i) = {"mcp.tool.payment_required"}
                   /\ Len(queued[i]) = 1

\* C15 witness: with telemetry enabled, an invocation of a not-entitled
\* customer is over and no checkout session was created for it
C15_Witness ==
    \E i \in Invocations : CheckoutCreationFailed(i) /\ analyticsEnabled

\* C16: for an entitled customer of a usage-based tool, a failure of the
\* metered-usage recording surfaces as the invocation's thrown error: the
\* original callback is not invoked, the metering error itself is rethrown
\* and, telemetry being enabled, a payment_failed event is queued.
C16_MeteringFailureIsRethrown ==
    \A i \in Invocations :
        (toolKind = "paid"
            /\ CaughtError(i) = StripeError("meterEvents.create failed")) =>
            /\ frame[i].paid = "yes" /\ options.meterEvent
            /\ calls[i] = <<>>
            /\ \A k \in DOMAIN stripe.meterEvents : stripe.meterEvents[k].by # i
            /\ Done(i) =>
                /\ completion[i] = Thrown(StripeError("meterEvents.create failed"))
                /\ analyticsEnabled =>
                    /\ Len(queued[i]) = 1
                    /\ queued[i][1].eventType = "mcp.tool.payment_failed"
                    /\ queued[i][1].errorMessage =
                           StripeError("meterEvents.create failed").message

\* C16 witness: with telemetry enabled, the metering call of an entitled
\* invocation failed and the invocation is over with its event queued
C16_Witness ==
    \E i \in Invocations :
        /\ toolKind = "paid" /\ analyticsEnabled /\ Done(i)
        /\ frame[i].error = StripeError("meterEvents.create failed")
        /\ queued[i] # <<>>

\* C17: registerAnalyticsPaidTool called with a checkout template that has no
\* priced line item throws at registration and registers no tool on the
\* server, so no invocation of the tool ever occurs: no invocation starts, the
\* original callback is never called, the payment platform is never called and
\* no event exists.
C17_UnpricedRegistrationFails ==
    (toolKind = "paid" /\ ~options.priced) =>
        /\ registered = "throws"
        /\ \A i \in Invocations :
               pc[i] = "idle" /\ calls[i] = <<>> /\ queued[i] = <<>>
        /\ stripe.checkouts = <<>> /\ stripe.meterEvents = <<>>
        /\ accepted = {} /\ sendCalls = <<>>

\* C17 witness: a paid registration with an API key and an unpriced template
C17_Witness ==
    /\ toolKind = "paid" /\ ~options.priced /\ options.apiKey
    /\ registered = "throws"

\* the sensitive terms as the documentation of redaction lists them
SensitiveTerms ==
    { <<"p","a","s","s","w","o","r","d">>, <<"p","a","s","s">>, <<"p","w","d">>,
      <<"t","o","k","e","n">>, <<"k","e","y">>, <<"s","e","c","r","e","t">>,
      <<"a","p","i","k","e","y">>, <<"a","p","i","_","k","e","y">>,
      <<"a","u","t","h">>,
      <<"a","u","t","h","o","r","i","z","a","t","i","o","n">>,
      <<"c","r","e","d","e","n","t","i","a","l">> }
\* the keys of an args object whose lower-cased name contains one of terms
KeysContaining(args, terms) ==
    IF args.t # "object" THEN {}
    ELSE {args.entries[k].k : k \in {j \in DOMAIN args.entries :
             \E term \in terms : includes(toLowerCase(args.entries[j].k), term)}}
\* the events invocation i handed to queueEvent
EventsOf(i) == Range(queued[i])

\* C18: for every parameter key whose lower-cased name contains a sensitive
\* term, the value in the parameters of every emitted event is '[REDACTED]',
\* while the args passed to the original callback are the caller's own, with
\* every value untouched. (Stated of the steps that hand an event to
\* queueEvent and of the steps that call the original callback.)
C18_SensitiveParametersRedacted ==
    [][\A i \in Invocations :
        /\ queued'[i] # queued[i] =>
               \A e \in Range(queued'[i]) :
                   \A key \in KeysContaining(frame'[i].args, SensitiveTerms) :
                       Get(e.parameters, key) = REDACTED
        /\ calls'[i] # calls[i] =>
               \A k \in DOMAIN calls'[i] : calls'[i][k].args = frame'[i].args
      ]_vars

\* C18 witness: an invocation whose args hold an apiKey and a userPwd called
\* the original callback and its event was handed to a send
C18_Witness ==
    \E i \in Invocations :
        /\ {K_apiKey, K_userPwd} \subseteq
               KeysContaining(frame[i].args, SensitiveTerms)
        /\ calls[i] # <<>> /\ Done(i)
        /\ \E k \in DOMAIN sendCalls : \E e \in Range(sendCalls[k]) : e.id = i

\* the further protected field names of the README
CardTerms ==
    { <<"c","r","e","d","i","t","c","a","r","d">>, <<"c","c">>, <<"c","v","v">> }

\* C19: parameters named with the protected field names creditcard, cc and
\* cvv (the key 'creditCard', for one) are transmitted as '[REDACTED]' in the
\* parameters of every event.
C19_CardParametersRedacted ==
    \A i \in Invocations :
        \A e \in EventsOf(i) :
            \A key \in KeysContaining(frame[i].args, CardTerms) :
                Get(e.parameters, key) = REDACTED

\* C20: when analytics is disabled through the enable/disable setting
\* (options.enabled === false) while an API key is configured, invocations of
\* free and paid tools queue and send zero events.
C20_DisabledQueuesNothing ==
    (options.apiKey /\ ~options.enabled) =>
        /\ \A i \in Invocations : queued[i] = <<>>
        /\ accepted = {} /\ eventQueue = <<>> /\ sendCalls = <<>>

\* C21: a paid tool registered without an analytics API key still enforces the
\* payment gate: the gate is the registered callback, an entitled invocation
\* whose callback returns returns that result, a not-entitled invocation never
\* runs the callback and, its checkout session created, returns the
\* payment_required response; and no event is queued on any path, the failure
\* paths included.
C21_GateWithoutAnalytics ==
    (toolKind = "paid" /\ ~options.apiKey /\ options.priced) =>
        /\ registered = "callback"
        /\ accepted = {} /\ eventQueue = <<>> /\ sendCalls = <<>>
        /\ \A i \in Invocations :
            /\ queued[i] = <<>>
            /\ frame[i].paid = "no" =>
                /\ calls[i] = <<>>
                /\ \A k \in CheckoutsOf(i) :
                    /\ Done(i)
                    /\ completion[i] = Returned(
                           paymentRequiredResult(paymentType,
                                                 stripe.checkouts[k].url))
            /\ (frame[i].paid = "yes" /\ Done(i)
                    /\ frame[i].original.kind = "returned") =>
                   completion[i] = Returned(frame[i].original.value)
            /\ calls[i] # <<>> => frame[i].paid = "yes"

\* C21 witness: without an API key, one invocation is over with a result or a
\* payment_required response and another is over having thrown
C21_Witness ==
    /\ toolKind = "paid" /\ ~options.apiKey /\ options.priced
    /\ \E i, j \in Invocations :
        /\ Done(i) /\ completion[i].kind = "returned"
        /\ Done(j) /\ completion[j].kind = "thrown"

\* C22: the kind of the single event of a free invocation matches its
\* outcome: a callback that returns yields one completed event with
\* success=true, the sanitized parameters and, if and only if result tracking
\* is enabled, the sanitized result; a callback that throws yields one failed
\* event with success=false, the error's kind and message, and no result.
C22_FreeEventMatchesOutcome ==
    \A i \in Invocations :
        (registered = "wrappedCallback" /\ Done(i)) =>
            /\ Len(queued[i]) = 1
            /\ queued[i][1].parameters = sanitizeParameters(frame[i].args)
            /\ frame[i].original.kind = "returned" =>
                /\ queued[i][1].eventType = "mcp.tool.completed"
                /\ queued[i][1].success = TRUE
                /\ queued[i][1].result =
                       IF options.trackResults
                       THEN sanitizeResult(frame[i].original.value)
                       ELSE JUndefined
            /\ frame[i].original.kind = "thrown" =>
                /\ queued[i][1].eventType = "mcp.tool.failed"
                /\ queued[i][1].success = FALSE
                /\ queued[i][1].errorType = frame[i].original.value.class
                /\ queued[i][1].errorMessage = frame[i].original.value.message
                /\ queued[i][1].result = JUndefined

\* the first checkout session of the tool the platform lists as paid
MatchingPaidSession ==
    stripe.sessions[CHOOSE k \in DOMAIN stripe.sessions :
        /\ stripe.sessions[k].toolName = toolName
        /\ stripe.sessions[k].payment_status = JStr("paid", 4)
        /\ \A j \in 1..(k - 1) :
               ~(/\ stripe.sessions[j].toolName = toolName
                 /\ stripe.sessions[j].payment_status = JStr("paid", 4))]

\* C23: for every entitled invocation whose callback succeeds while the
\* platform reports a matching paid session S, the payment_completed event
\* carries S's amount, currency, session id, creation date, payment status and
\* subscription id, with the resolved customer id and the tool's price id.
C23_PaymentCompletedCarriesSession ==
    \A i \in Invocations :
        (toolKind = "paid" /\ analyticsEnabled /\ Done(i)
            /\ frame[i].paid = "yes" /\ frame[i].original.kind = "returned"
            /\ frame[i].paymentSession # NoSession) =>
            /\ Len(queued[i]) = 1
            /\ LET e == queued[i][1]
                   S == MatchingPaidSession
               IN /\ e.eventType = "mcp.tool.payment_completed"
                  /\ e.paymentAmount = S.amount_total
                  /\ e.paymentCurrency = S.currency
                  /\ e.paymentSessionId = S.id
                  /\ e.paymentDate = toISOString(S.created)
                  /\ e.paymentStatus = S.payment_status
                  /\ e.subscriptionId = S.subscription
                  /\ e.customerId = frame[i].customerId
                  /\ e.customerId \in Range(stripe.customers)
                  /\ e.priceId = priceId

\* C23 witness: a payment_completed event was queued for a customer whose paid
\* session belongs to a subscription
C23_Witness ==
    \E i \in Invocations :
        /\ toolKind = "paid" /\ analyticsEnabled /\ Done(i)
        /\ frame[i].paid = "yes" /\ frame[i].original.kind = "returned"
        /\ frame[i].paymentSession = PaidSubscription
        /\ queued[i] # <<>>

\* C24: the tracked userId is props.userId if present, else props.sub, else
\* props.email; props that carry an email and neither userId nor sub give
\* a userId equal to that email.
C24_UserIdFallsBackToEmail ==
    LET uid == Get(props, <<"u","s","e","r","I","d">>)
        sub == Get(props, <<"s","u","b">>)
        em == Get(props, <<"e","m","a","i","l">>)
    IN (userInfo # NoUserInfo /\ ~Falsy(props)) =>
        /\ ~Falsy(uid) => userInfo.userId = uid
        /\ (Falsy(uid) /\ ~Falsy(sub)) => userInfo.userId = sub
        /\ (Falsy(uid) /\ Falsy(sub) /\ ~Falsy(em)
                /\ StrLength(trim(em)) > 0) =>
               userInfo.userId \in {em, trim(em)}

\* C25: on a client that is not destroyed and whose batch size b satisfies
\* 1 <= b <= 25, the queue holds fewer than b events whenever queueEvent has
\* returned, under any interleaving of queueEvent calls, timer ticks, manual
\* flushes and sends in flight; its length never exceeds the batch size.
C25_QueueStaysBelowBatchSize ==
    (~isDestroyed /\ 1 <= batchSize /\ batchSize <= MaxBatchSize) =>
        Len(eventQueue) < batchSize

\* C25 witness: queueEvent has flushed a full batch, whose send is still in
\* flight, and has since queued another event below the batch size
C25_Witness ==
    /\ ~isDestroyed /\ batchSize = 2
    /\ \E b \in inflight : Len(b) = batchSize
    /\ Len(eventQueue) = 1
    /\ Cardinality(accepted) >= 3

\* C26: on a client whose periodic timer is set and whose batch size is at
\* least 1, every event queueEvent has accepted is, unless destroy() is
\* called, eventually out of the queue and part of exactly one batch handed
\* to sendEvents, whether earlier sends resolved or rejected.
C26_AcceptedEventIsEventuallySent ==
    \A e \in 1..MaxEvents :
        (e \in accepted /\ flushTimer /\ batchSize >= 1)
            ~> \/ isDestroyed
               \/ /\ e \notin Range(eventQueue)
                  /\ Cardinality(BatchesOf(e)) = 1

\* C26 witness: with a batch size the queue never reached, the timer is set,
\* an earlier send has rejected, and every accepted event has left the queue
\* in exactly one batch
C26_Witness ==
    /\ flushTimer /\ ~isDestroyed /\ batchSize = DefaultBatchSize
    /\ Cardinality(accepted) >= 2
    /\ discarded # {}
    /\ eventQueue = <<>>
    /\ \A e \in accepted : Cardinality(BatchesOf(e)) = 1

\* C27 as stated: in the entitled branch the second lookup of the matching
\* paid session happens after the original callback has returned
\* successfully, never before the callback is invoked, and is not performed
\* when the callback fails.
C27_LookupFollowsSuccessfulCallback ==
    \A i \in Invocations :
        toolKind = "paid" =>
            /\ pc[i] = "getPaymentSessionData" =>
                   calls[i] # <<>> /\ frame[i].original.kind = "returned"
            /\ frame[i].original.kind = "thrown" =>
                   frame[i].paymentSession = NoSession

\* C27, amended: in the entitled branch the second lookup of the matching
\* paid session happens before the original callback is invoked; the callback
\* is invoked only by the step in which that lookup settles, so the lookup is
\* performed whether the callback then returns or fails.
C27_LookupPrecedesCallback ==
    [][\A i \in Invocations :
          toolKind = "paid" =>
              /\ pc[i] = "getPaymentSessionData" =>
                     /\ frame[i].paid = "yes"
                     /\ calls[i] = <<>> /\ frame[i].original = NotSettled
              /\ (calls'[i] # calls[i]
                    \/ (pc'[i] = "originalCallback" /\ pc[i] # pc'[i])) =>
                     /\ pc[i] = "getPaymentSessionData"
                     /\ pc'[i] = "originalCallback"
                     /\ calls[i] = <<>> /\ Len(calls'[i]) = 1]_vars

\* C27 witness: an entitled invocation whose callback failed had its payment
\* session looked up, and found, all the same
C27_Witness ==
    \E i \in Invocations :
        /\ toolKind = "paid" /\ Done(i) /\ frame[i].paid = "yes"
        /\ frame[i].original.kind = "thrown"
        /\ frame[i].paymentSession # NoSession

\* C28: in the entitled branch a failure of the payment-session lookup never
\* fails the invocation: the original callback still runs exactly once with
\* the arguments received, its result is returned unchanged, and, telemetry
\* being enabled, the payment_completed event is still queued, with amount,
\* currency, session id, payment date, status and subscription id all null.
C28_LookupFailureIsHarmless ==
    \A i \in Invocations :
        (toolKind = "paid" /\ frame[i].paid = "yes"
            /\ pc[i] \in {"originalCallback", "done"} /\ ~MeterFailed(i)
            /\ frame[i].paymentSession = NoSession) =>
            /\ calls[i] = <<Received(i)>>
            /\ (Done(i) /\ frame[i].original.kind = "returned") =>
                /\ completion[i] = Returned(frame[i].original.value)
                /\ analyticsEnabled =>
                    /\ Len(queued[i]) = 1
                    /\ queued[i][1].eventType = "mcp.tool.payment_completed"
                    /\ queued[i][1].success = TRUE
                    /\ queued[i][1].paymentAmount = JNull
                    /\ queued[i][1].paymentCurrency = JNull
                    /\ queued[i][1].paymentSessionId = JNull
                    /\ queued[i][1].paymentDate = JNull
                    /\ queued[i][1].paymentStatus = JNull
                    /\ queued[i][1].subscriptionId = JNull

\* C28 witness: the platform holds a paid session of the tool, the lookup for
\* the event failed, the callback returned and the event was queued
C28_Witness ==
    \E i \in Invocations :
        /\ toolKind = "paid" /\ analyticsEnabled /\ Done(i)
        /\ frame[i].paid = "yes" /\ frame[i].original.kind = "returned"
        /\ getPaymentSessionData(stripe.sessions, toolName) # NoSession
        /\ frame[i].paymentSession = NoSession
        /\ queued[i] # <<>>

\* C29: when a paid-tool invocation fails (gateway or callback error) with
\* telemetry enabled, the customer id is resolved again for the
\* payment_failed event; if that resolution fails its error is swallowed, the
\* event is still queued with a null customer id, and the invocation rejects
\* with the first error, not with the error of the resolution.
C29_FailureReresolvesCustomer ==
    [][\A i \in Invocations :
          (toolKind = "paid" /\ analyticsEnabled) =>
              /\ (frame[i].error = NoError /\ frame'[i].error # NoError) =>
                     pc'[i] = "catch.customers.list"
              /\ (pc[i] \in {"catch.customers.list", "catch.customers.create"}
                    /\ pc'[i] = "done") =>
                     /\ completion'[i] = Thrown(frame[i].error)
                     /\ Len(queued'[i]) = Len(queued[i]) + 1
                     /\ LET e == queued'[i][Len(queued'[i])]
                            failed ==
                                \/ /\ pc[i] = "catch.customers.list"
                                   /\ findCustomer(stripe.customers) = JNull
                                \/ /\ pc[i] = "catch.customers.create"
                                   /\ stripe'.customers = stripe.customers
                        IN /\ e.eventType = "mcp.tool.payment_failed"
                           /\ e.success = FALSE
                           /\ e.customerId \in {JNull} \cup Range(stripe'.customers)
                           /\ failed => e.customerId = JNull]_vars

\* C30: in the not-entitled branch the payment_required event (success=false,
\* payment status 'required', the resolved customer id, the price id, and null
\* amount, currency, date, session id and subscription id) has been handed to
\* queueEvent before the call that creates the checkout session is issued, so
\* it is queued whether that call later succeeds or fails.
C30_PaymentRequiredQueuedBeforeCheckout ==
    \A i \in Invocations :
        (toolKind = "paid" /\ analyticsEnabled
            /\ (pc[i] = "checkout.sessions.create" \/ frame[i].paid = "no")) =>
            /\ pc[i] \in {"checkout.sessions.create", "done"}
            /\ pc[i] = "checkout.sessions.create" => CheckoutsOf(i) = {}
            /\ Len(queued[i]) = 1
            /\ queued[i][1].eventType = "mcp.tool.payment_required"
            /\ queued[i][1].success = FALSE
            /\ queued[i][1].paymentStatus = JStr("required", 8)
            /\ queued[i][1].customerId = frame[i].customerId
            /\ queued[i][1].customerId \in Range(stripe.customers)
            /\ queued[i][1].priceId = priceId
            /\ queued[i][1].paymentAmount = JNull
            /\ queued[i][1].paymentCurrency = JNull
            /\ queued[i][1].paymentDate = JNull
            /\ queued[i][1].paymentSessionId = JNull
            /\ queued[i][1].subscriptionId = JNull

\* C30 witness: one invocation's event is queued while its checkout call is
\* pending, another's checkout call has failed and its event is queued too
C30_Witness ==
    /\ toolKind = "paid" /\ analyticsEnabled
    /\ \E i, j \in Invocations :
        /\ pc[i] = "checkout.sessions.create" /\ queued[i] # <<>>
        /\ Done(j) /\ frame[j].paid = "no" /\ CheckoutsOf(j) = {}
        /\ queued[j] # <<>>

\* C31: customer resolution is idempotent per billing email: across any
\* interleaving of paid-tool invocations for the same email, the resolution
\* of the failure path included, a customer is created only when no customer
\* with that email exists, so at most one customer record exists for it.
C31_OneCustomerPerEmail ==
    toolKind = "paid" => Len(stripe.customers) <= 1

\* the metered-usage units recorded by invocation i
MetersOf(i) == {k \in DOMAIN stripe.meterEvents : stripe.meterEvents[k].by = i}

\* C32: a metered-usage unit is recorded only in invocations of a usage-based
\* tool whose customer was found entitled, at most once per invocation and
\* before the original callback is invoked: whenever the callback has been
\* invoked the unit is already recorded, also when the callback then throws,
\* and no unit is ever recorded for a customer who is not entitled.
C32_UsageRecordedOnceBeforeCallback ==
    \A i \in Invocations :
        toolKind = "paid" =>
            /\ Cardinality(MetersOf(i)) <= 1
            /\ MetersOf(i) # {} =>
                /\ options.meterEvent /\ frame[i].paid = "yes"
                /\ \A k \in MetersOf(i) :
                       stripe.meterEvents[k].customer = frame[i].customerId
            /\ frame[i].paid = "no" => MetersOf(i) = {}
            /\ pc[i] = "meterEvents.create" =>
                   calls[i] = <<>> /\ MetersOf(i) = {}
            /\ (options.meterEvent /\ calls[i] # <<>>) =>
                   Cardinality(MetersOf(i)) = 1

\* C32 witness: the callback of a usage-based tool threw after the unit of
\* its invocation was recorded
C32_Witness ==
    \E i \in Invocations :
        /\ toolKind = "paid" /\ options.meterEvent /\ Done(i)
        /\ frame[i].original.kind = "thrown"
        /\ Cardinality(MetersOf(i)) = 1

\* C34: destroy() is idempotent and final: a second destroy() changes
\* nothing, and once the client is destroyed it stays destroyed, the timer
\* stays cleared and never flushes, queueEvent leaves the queue as it is, and
\* neither flush nor sendEvents starts a new request.
C34_DestroyIsFinal ==
    [][isDestroyed =>
          /\ isDestroyed' /\ ~flushTimer /\ ~flushTimer'
          /\ eventQueue' = eventQueue /\ accepted' = accepted
          /\ sendCalls' = sendCalls /\ inflight' \subseteq inflight
          /\ Destroy => UNCHANGED vars]_vars

\* C34 witness: on a destroyed client whose queue still holds events and
\* which has a send in flight, a later queueEvent call was dropped
C34_Witness ==
    /\ isDestroyed /\ toolKind = "none"
    /\ eventQueue # <<>> /\ inflight # {}
    /\ nextEvent - 1 > Cardinality(accepted)

\* C35: sanitizeParameters is idempotent: for every parameter mapping p,
\* values longer than 1000 characters and sensitive keys included,
\* sanitizeParameters(sanitizeParameters(p)) equals sanitizeParameters(p).
C35_SanitizeParametersIdempotent ==
    \A n \in DOMAIN sanOut :
        sanOut[n].pass = 2 => sanOut[n].again = sanOut[n].params

\* C35 witness: the second pass ran on parameters the first pass had both
\* redacted and truncated
C35_Witness ==
    \E n \in DOMAIN sanOut :
        /\ sanOut[n].pass = 2
        /\ Get(sanOut[n].params, K_apiKey) = REDACTED
        /\ Get(sanIn.args[n], K_apiKey) # REDACTED
        /\ StrLength(Get(sanIn.args[n], K_query)) > 1000
        /\ StrLength(Get(sanOut[n].params, K_query)) = 1014

\* C36: sanitization never fails or alters an invocation: for every args and
\* every result, sanitizeParameters and sanitizeResult return a value
\* (sanitizeResult its fixed error marker when its own processing throws),
\* the callback is called with the args as they were, and its result is
\* returned as it was.
C36_SanitizationNeverFails ==
    \A n \in DOMAIN sanOut :
        sanOut[n].pass >= 1 =>
            /\ sanOut[n].params.t = "object"
            /\ sanOut[n].result.t # "raise"
            /\ sanitizeResult(sanIn.result).t # "raise"
            /\ Get(sanIn.result, <<"s","e","l","f">>) = JRef =>
                   Get(sanOut[n].result,
                       <<"_","s","a","n","i","t","i","z","a","t","i","o","n",
                         "E","r","r","o","r">>)
                       = JStr("Failed to sanitize result", 25)
            /\ sanOut[n].called.args = sanIn.args[n]
            /\ sanOut[n].returned = sanIn.result

\* C36 witness: a call whose args and whose result both hold a cycle is over
C36_Witness ==
    \E n \in DOMAIN sanOut :
        /\ sanOut[n].pass >= 1
        /\ Get(sanIn.args[n], <<"s","e","l","f">>) = JRef
        /\ Get(sanIn.result, <<"s","e","l","f">>) = JRef

\* every array inside value v holds at most 20 elements
RECURSIVE ArraysAtMost20(_)
ArraysAtMost20(v) ==
    IF v.t = "array"
    THEN /\ Len(v.items) <= 20
         /\ \A i \in DOMAIN v.items : ArraysAtMost20(v.items[i])
    ELSE IF v.t = "object"
    THEN \A i \in DOMAIN v.entries : ArraysAtMost20(v.entries[i].v)
    ELSE TRUE

\* some string inside value v holds characters of the text named base
RECURSIVE HoldsText(_, _)
HoldsText(v, base) ==
    IF v.t = "string" THEN \E i \in DOMAIN v.s : v.s[i].base = base
    ELSE IF v.t = "array"
    THEN \E i \in DOMAIN v.items : HoldsText(v.items[i], base)
    ELSE IF v.t = "object"
    THEN \E i \in DOMAIN v.entries : HoldsText(v.entries[i].v, base)
    ELSE FALSE

\* C37: for every result, every array inside the value sanitizeResult
\* produces for transmission, the content array of an MCP-style result
\* included, holds at most 20 elements, and the data of an image never
\* appears in it.
C37_TransmittedArraysAreCapped ==
    \A n \in DOMAIN sanOut :
        sanOut[n].pass >= 1 =>
            /\ ArraysAtMost20(sanOut[n].result)
            /\ ~HoldsText(sanOut[n].result, "iVBORw0KGgo")

\* args with the value of every sensitive-named top-level parameter set aside
WithoutSecrets(args) ==
    IF args.t # "object" THEN args
    ELSE JObj([i \in DOMAIN args.entries |->
                 [k |-> args.entries[i].k,
                  v |-> IF args.entries[i].k
                            \in KeysContaining(args, SensitiveTerms)
                        THEN JNull ELSE args.entries[i].v]])

\* C38: two invocations of one tool whose args differ only in the values of
\* sensitive-named top-level parameters, the callback's result being the
\* same, track identical parameters and an identical result: the secret
\* values do not influence what is transmitted.
C38_SecretsDoNotInfluenceEvents ==
    (/\ sanOut # <<>>
     /\ \A n \in DOMAIN sanOut : sanOut[n].pass >= 1
     /\ WithoutSecrets(sanIn.args[1]) = WithoutSecrets(sanIn.args[2])) =>
        /\ sanOut[1].params = sanOut[2].params
        /\ sanOut[1].result = sanOut[2].result

\* C38 witness: two calls over whose args differ, and only in secrets
C38_Witness ==
    /\ sanOut # <<>>
    /\ \A n \in DOMAIN sanOut : sanOut[n].pass >= 1
    /\ sanIn.args[1] # sanIn.args[2]
    /\ sanIn.args[1].t = "object"
    /\ WithoutSecrets(sanIn.args[1]) = WithoutSecrets(sanIn.args[2])

\* C39: when analyticsPaidTool is called with a checkout template that has no
\* priced line item, the configuration error reaches the caller of
\* analyticsPaidTool at registration time: the call does not return normally
\* as if the tool had been registered.
C39_AgentRegistrationFailsFast ==
    (toolKind = "paid" /\ ~options.priced) => agentCall.outcome = "threw"

\* C40: a registration of a paid tool that fails with the missing-price
\* configuration error leaves nothing running behind: no delivery client with
\* an active periodic flush timer exists because of it.
C40_FailedRegistrationLeavesNoTimer ==
    (toolKind = "paid" /\ registered = "throws") => ~flushTimer

\* C33: all tools registered on one server instance append their events to
\* one event queue shared across their invocations: the server has one
\* delivery client and one flush timer, and the batch-size trigger counts the
\* events of all tools together, so the events waiting on the server never
\* number batchSize or more.
C33_OneSharedQueue ==
    LET withClient == {t \in 1..Len(server.tools) : server.tools[t].client # 0}
        timers == {c \in 1..Len(server.clients) : server.clients[c].flushTimer}
        RECURSIVE Pending(_)
        Pending(c) == IF c = 0 THEN 0
                      ELSE Len(server.clients[c].eventQueue) + Pending(c - 1)
    IN /\ \A t, u \in withClient :
              server.tools[t].client = server.tools[u].client
       /\ Len(server.clients) <= 1
       /\ Cardinality(timers) <= 1
       /\ Pending(Len(server.clients)) < batchSize

====
